---- MODULE Spec2Model ----
(***************************************************************************)
(* A model of the kerrbhy black-hole renderer.                             *)
(*                                                                         *)
(*   Spec         one call of the software kernel `render`                 *)
(*                (software/renderer/src/lib.rs), one step per loop        *)
(*                iteration;                                               *)
(*   SpecCompute  the per-pixel driver `Renderer::compute` accumulating    *)
(*                samples into the FrameBuffer;                            *)
(*   SpecMarcher  the hardware path: `Marcher::update` / `Marcher::record` *)
(*                behind `Renderer::update` / `Renderer::compute`.         *)
(*                                                                         *)
(* Numbers.  The program computes in f32.  Lengths are modelled in tenths  *)
(* (0.6 is 6), squared lengths and the disk's radius and thickness in      *)
(* hundredths (thickness 0.1 is 10, radius 4.0 is 400), colours in tenths. *)
(* A position is the pair (rho, y) = (|p.xz|, p.y): every test the kernel  *)
(* makes on a position depends on these two numbers only.  What an         *)
(* integrator step, the noise field or a random draw produces is a         *)
(* nondeterministic choice over the classes the control flow can observe.  *)
(***************************************************************************)
EXTENDS Integers, Sequences, FiniteSets, TLC

VARIABLES
    \* ---- render: configuration and locals
    config,        \* &Config: features, disk
    pc,            \* "loop" | "resolve" | "returned" | "panicked" | "idle"
    iter,          \* loop iterations entered so far
    p,             \* position
    v,             \* velocity: "rd" (the initial direction) or "bent"
    h,             \* step size: "DELTA" or "adapted"
    attenuation,   \* Vec3, component i in units of 10^-bounces
    r,             \* radiance: [disk, sky]
    bounces,
    density,       \* sample.distance of the latest disk_volume call:
                   \* "none" | "zero" | "pos"
    ret,           \* "none" | "sentinel" | "radiance" | "disk_color"
    \* ---- render: what has been executed (history)
    exitBy,        \* how the loop was left
    steps,         \* integrator calls
    integ,         \* integrators applied so far
    diskSamples,   \* disk_volume calls
    sdfEvals,      \* disk_sdf calls
    skyLookups,    \* sky function calls
    skyDir,        \* the direction handed to the sky function
    \* ---- software Renderer::compute: the FrameBuffer and its driver
    buffer,        \* pixel -> Vec4
    sample,        \* the sample index the driver's loop passes next
    fresh,         \* the buffer has only seen the current run of the loop
    nValid,        \* pixel -> samples of this run that were not discarded
    sumValid,      \* pixel -> sum of the colours blended for those samples
    sumAll,        \* pixel -> sum of the colours blended in this run
    degenerate,    \* render has handed back a NaN or infinite colour
    \* ---- hardware Renderer and Marcher
    texture,       \* Marcher.texture: [width, height, passes], passes being
                   \* the compute passes accumulated into this texture
    fov,           \* Marcher.fov
    disk_radius,   \* Marcher.disk_radius
    disk_height,   \* Marcher.disk_height
    sample_no,     \* Marcher.sample_no
    dirty,         \* Renderer.dirty
    lastParams,    \* the Params of the latest update ("none" before it)
    pushed,        \* the sample index the latest record pushed (-1 before it)
    recorded,      \* record calls since the last update that returned dirty
                   \* (since Marcher::new before it) (history)
    \* ---- one call of a pure function of the kernel
    fn,            \* the function applied ("none" before the call)
    arg,           \* its arguments
    out,           \* what it returned
    \* ---- FrameBuffer::par_for_each
    image,         \* FrameBuffer.buffer: pixel -> value
    before,        \* the buffer as it was when par_for_each was called
    func,          \* the closure f handed in
    pending,       \* the pixels enumerate_pixels_mut has not yielded yet
    workers,       \* rayon worker -> the item it holds and how far it is
    called,        \* pixel -> number of calls of f for it
    overlapped,    \* two tasks have been under way at the same time
    \* ---- the interactive simulator: App under the event loop
    accumulate,    \* App.accumulate
    simPc,         \* "wait" for a redraw | "updated": App::update has run
    drew,          \* whether the latest App::draw recorded a compute pass
                   \* ("none" before the first)
    \* ---- Gui under the event loop of crates/event
    partial,       \* Gui.partial: 0 for None, k for the output stored by the
                   \* update of the k-th handled redraw
    rawInput,      \* window events egui holds until the next begin
    running,       \* run's flag `running`
    guiPc,         \* "wait" for an event | "updated": the handler's update
                   \* has returned | "panicked"
    redraws,       \* RedrawRequested events whose frame was obtained
    frame,         \* how the latest surface.get_current_texture() ended
    consumed,      \* output k -> number of Gui::draw calls that took it
    \* ---- common::OrbitCamera
    camera,        \* the OrbitCamera: fov, radius, bounds, target, phi, theta
    given,         \* the bounds handed to OrbitCamera::new (history)
    camLast,       \* the latest call: "new" | "orbit" | "zoom"
    camCalls,      \* calls of orbit and zoom so far
    \* ---- sim::input::Mouse
    mouse,         \* the Mouse: pos, scroll_delta, button_states
    lastInput,     \* button -> its latest MouseInput: "none" | "pressed" | "released"
    mouseEvents,   \* events passed to update_state so far
    \* ---- wgsl_bindgen::preprocess
    files,         \* the file system: path -> readable or not, and its lines
    stack,         \* the frames of process() under way, innermost last
    bpc,           \* "start" | "run" | "ok" | "err" | "overflow"
    built,         \* what build returned
    \* ---- sim::ui::file_dialog
    appConfig,     \* the Config handed to show
    disk,          \* path -> readable, writable, text
    shown,         \* the dialog of the latest call of show
    showOut,       \* what that call returned and logged
    shows          \* calls of show so far

renderVars == <<config, pc, iter, p, v, h, attenuation, r, bounces, density, ret,
                exitBy, steps, integ, diskSamples, sdfEvals, skyLookups, skyDir>>

computeVars == <<buffer, sample, fresh, nValid, sumValid, sumAll, degenerate>>

marcherVars == <<texture, fov, disk_radius, disk_height, sample_no, dirty,
                 lastParams, pushed, recorded>>

callVars == <<fn, arg, out>>

parVars == <<image, before, func, pending, workers, called, overlapped>>

simVars == <<accumulate, simPc, drew>>

guiVars == <<partial, rawInput, running, guiPc, redraws, frame, consumed>>

camVars == <<camera, given, camLast, camCalls>>

mouseVars == <<mouse, lastInput, mouseEvents>>

buildVars == <<files, stack, bpc, built>>

dialogVars == <<appConfig, disk, shown, showOut, shows>>

vars == <<renderVars, computeVars, marcherVars, callVars, parVars, simVars, guiVars, camVars, mouseVars, buildVars, dialogVars>>

(***************************************************************************)
(* Program constants (software/renderer/src/lib.rs:37-41)                  *)
(***************************************************************************)
MAX_STEPS == 128
MAX_BOUNCES == 4
\* 0.6, in tenths
BLACKHOLE_RADIUS == 6
\* 3.6, in tenths
SKYBOX_RADIUS == 36

(***************************************************************************)
(* common::Features, common::Disk, common::Config                          *)
(***************************************************************************)
Features == {"DISK_SDF", "DISK_VOL", "SKY_PROC", "AA", "RK4", "ADAPTIVE", "BLOOM"}

\* the flags `render` reads; AA and BLOOM are read by `compute` only
KernelFeatures == Features \ {"AA", "BLOOM"}

\* disk colours (tenths): the default (0.3, 0.2, 0.1) and one a config file can hold
DiskColors == {<<3, 2, 1>>, <<20, 10, 0>>}
\* disk radii (hundredths): 4.0
DiskRadii == {400}
\* disk thickness (hundredths): the default 0.1
DiskThicknesses == {10}

Disk == [radius : DiskRadii, thickness : DiskThicknesses, color : DiskColors]

Configs == [features : SUBSET KernelFeatures, disk : Disk]

(***************************************************************************)
(* Positions                                                               *)
(***************************************************************************)
Pos(rho, y) == [nan |-> FALSE, rho |-> rho, y |-> y]
NaNPos == [nan |-> TRUE, rho |-> 0, y |-> 0]

\* inside the hole; in the disk plane; above the disk; in the plane beyond
\* the disk; beyond the skybox
PosGrid == {Pos(5, 0), Pos(10, 0), Pos(10, 5), Pos(30, 0), Pos(40, 0)}

\* what an integrator step can leave in p (a stage evaluated near the
\* origin overflows to inf - inf = NaN)
StepResults == PosGrid \cup {NaNPos}

LengthSquared(q) == q.rho * q.rho + q.y * q.y

\* p.length_squared() < BLACKHOLE_RADIUS * BLACKHOLE_RADIUS (false on NaN)
Captured(q) == ~q.nan /\ LengthSquared(q) < BLACKHOLE_RADIUS * BLACKHOLE_RADIUS

\* p.length_squared() > SKYBOX_RADIUS * SKYBOX_RADIUS (false on NaN)
Escaped(q) == ~q.nan /\ LengthSquared(q) > SKYBOX_RADIUS * SKYBOX_RADIUS

Abs(x) == IF x < 0 THEN -x ELSE x
Max(a, b) == IF a < b THEN b ELSE a
Min(a, b) == IF a < b THEN a ELSE b

\* f32::sqrt on the radii used (hundredths in, tenths out)
Sqrt(x) == CHOOSE s \in 0..40 : s * s <= x /\ (s + 1) * (s + 1) > x

(***************************************************************************)
(* disk_volume: the set of DiskInfo values a call can return (the noise    *)
(* field and the temperature draw decide which): emission is zero,         *)
(* positive or NaN, distance is zero or positive.  The noise n0 = fbm(..)  *)
(* is a weighted mean of values in [0, 1), so (n0 - falloff).max(0.0) can  *)
(* be positive only where the falloff is below 1.                          *)
(***************************************************************************)
\* line 258: squared lengths compared with radius and thickness themselves
OutsideDiskVolume(q, radius, thickness) ==
    ~q.nan /\ (q.rho * q.rho > radius \/ q.y * q.y > thickness)

\* line 270: d_falloff = |(0.12, 7.50, 0.12) * p| < 1
MayAbsorb(q) == 144 * q.rho * q.rho + 562500 * q.y * q.y < 1000000

\* line 271: e_falloff = |(0.20, 8.00, 0.20) * p| < 1
MayEmit(q) == 400 * q.rho * q.rho + 640000 * q.y * q.y < 1000000

disk_volume(q, radius, thickness) ==
    IF OutsideDiskVolume(q, radius, thickness)
    THEN {[emission |-> "zero", distance |-> "zero"]}
    ELSE IF q.nan
         \* every product with p is NaN; f32::max(NaN, 0.0) is 0.0
         THEN {[emission |-> "nan", distance |-> "zero"]}
         ELSE [emission : IF MayEmit(q) THEN {"zero", "pos"} ELSE {"zero"},
               distance : IF MayAbsorb(q) THEN {"zero", "pos"} ELSE {"zero"}]

(***************************************************************************)
(* disk_sdf.  f32::clamp(self, min, max) panics when !(min <= max); here   *)
(* min is d.y and max is 0.0.  When it does not panic d.y <= 0, so         *)
(* length(max(d, 0)) is max(d.x, 0).                                       *)
(***************************************************************************)
ClampPanics(lo, hi) == ~(lo <= hi)
Clamp(x, lo, hi) == Min(Max(x, lo), hi)

disk_sdf(q, hh, rr) ==
    IF q.nan
    THEN [panic |-> TRUE, dist |-> 0]
    ELSE LET dx == Abs(q.rho) - rr
             dy == Abs(q.y) - hh
         IN IF ClampPanics(dy, 0)
            THEN [panic |-> TRUE, dist |-> 0]
            ELSE [panic |-> FALSE, dist |-> Clamp(dx, dy, 0) + Max(dx, 0)]

\* disk_sdf(p, config.disk.thickness, config.disk.radius.sqrt())
SdfAt(q, cfg) == disk_sdf(q, cfg.disk.thickness \div 10, Sqrt(cfg.disk.radius))

(***************************************************************************)
(* The integrator render applies (lines 477-483) and the step size it      *)
(* leaves.                                                                 *)
(***************************************************************************)
\* the two flag tests of lines 477-480 in the opposite order
Integrator_Rk4First(features) ==
    IF "RK4" \in features THEN "rk4"
    ELSE IF "ADAPTIVE" \in features THEN "bogacki_shampine"
    ELSE "euler"

Integrator(features) ==
    IF "ADAPTIVE" \in features THEN "bogacki_shampine"
    ELSE IF "RK4" \in features THEN "rk4"
    ELSE "euler"

NextH(features, h0) == IF "ADAPTIVE" \in features THEN "adapted" ELSE h0

SkyFunction(features) ==
    IF "SKY_PROC" \in features THEN "procedural_sky" ELSE "sample_sky"

\* the colour added to the attenuation instead of multiplied into it
Tint_Add(att, color) == [i \in 1..3 |-> att[i] + color[i]]

\* attenuation *= config.disk.color
Tint(att, color) == [i \in 1..3 |-> att[i] * color[i]]

\* r += attenuation * sample.emission * h
AddEmission(rad, emission) ==
    IF emission = "zero" \/ rad.disk = "nan" THEN rad
    ELSE [rad EXCEPT !.disk = emission]

\* r += attenuation * sky(v.normalize())
AddSky(rad) == [rad EXCEPT !.sky = @ + 1]

ZeroRadiance == [disk |-> "zero", sky |-> 0]

(***************************************************************************)
(* f32 values as the accumulation sees them: a finite number or one of     *)
(* NaN, +inf, -inf.  A colour channel handed back by render is a whole     *)
(* number; a pixel channel is held in units of 1/Scale, so that the blend  *)
(* weights 1/(sample + 1) divide exactly (f32 rounding is not modelled).   *)
(***************************************************************************)
F(x) == [k |-> "fin", x |-> x]
NaN == [k |-> "nan", x |-> 0]
PInf == [k |-> "inf", x |-> 0]
NInf == [k |-> "ninf", x |-> 0]

IsFin(a) == a.k = "fin"
LtZero(a) == a.k = "ninf" \/ (a.k = "fin" /\ a.x < 0)
FNeg(a) == CASE a.k = "fin" -> F(-a.x)
             [] a.k = "inf" -> NInf
             [] a.k = "ninf" -> PInf
             [] OTHER -> NaN

FAdd(a, b) ==
    CASE a.k = "nan" \/ b.k = "nan" -> NaN
      [] a.k = "fin" /\ b.k = "fin" -> F(a.x + b.x)
      [] a.k = "fin" -> b
      [] b.k = "fin" -> a
      [] a.k = b.k -> a
      [] OTHER -> NaN

FSub(a, b) == FAdd(a, FNeg(b))

\* a * (w[1] / w[2]) for a weight 0 < w <= 1
FMulW(a, w) == IF IsFin(a) THEN F((a.x * w[1]) \div w[2]) ELSE a

\* the model's sample counts
MaxSamples == 3

RECURSIVE Factorial(_)
Factorial(n) == IF n = 0 THEN 1 ELSE n * Factorial(n - 1)

Scale == Factorial(MaxSamples)

\* f32::powf(x, 0.45) on the channel values the model uses
\* (1048576 = 2^20, and (2^20)^0.45 = 2^9)
Powf045(a) ==
    CASE a.k = "nan" -> NaN
      [] a.k = "inf" -> PInf
      [] a.k = "ninf" -> PInf
      [] a.k = "fin" /\ a.x < 0 -> NaN
      [] a.k = "fin" /\ a.x = 0 -> F(0)
      [] a.k = "fin" /\ a.x = 1 -> F(1)
      [] a.k = "fin" /\ a.x = 1048576 -> F(512)

(***************************************************************************)
(* What render can hand back for a sample: the sentinel Vec3::splat(-1.0), *)
(* black, a colour, a colour with a NaN and one with an infinite channel.  *)
(***************************************************************************)
Sentinel == <<F(-1), F(-1), F(-1)>>
Vec3Zero == <<F(0), F(0), F(0)>>
SomeColor == <<F(1048576), F(1), F(0)>>
NaNColor == <<NaN, F(0), F(1)>>
InfColor == <<F(1), PInf, F(0)>>

RenderReturns == {Sentinel, Vec3Zero, SomeColor, NaNColor, InfColor}

\* the filter leaving out the test for a negative component
Discarded_NoNegative(color) ==
    \/ ~(\A i \in 1..3 : IsFin(color[i]))
    \/ \E i \in 1..3 : color[i].k = "nan"

\* line 558: color.cmplt(Vec3::ZERO).any() || !color.is_finite() || color.is_nan()
Discarded(color) ==
    \/ \E i \in 1..3 : LtZero(color[i])
    \/ ~(\A i \in 1..3 : IsFin(color[i]))
    \/ \E i \in 1..3 : color[i].k = "nan"

\* lines 558-568: the Vec4 that gets blended, as whole numbers
Blended(color) ==
    LET kept == IF Discarded(color) THEN Vec3Zero ELSE color
        gamma == [i \in 1..3 |-> Powf045(kept[i])]
    IN Append(gamma, F(1))

\* a weight that lags one sample behind
Weight_OffByOne(s) == <<1, s + 2>>

\* line 571: 1.0 / (sample + 1) as f32
Weight(s) == <<1, s + 1>>

\* glam Vec4::lerp: self + (rhs - self) * s
Lerp(old, new, w) == [i \in 1..4 |-> FAdd(old[i], FMulW(FSub(new[i], old[i]), w))]

InUnits(c) == [i \in 1..4 |-> IF IsFin(c[i]) THEN F(c[i].x * Scale) ELSE c[i]]

\* the closure of lines 530-572 for one pixel
ComputePixel(old, color, s) == Lerp(old, InUnits(Blended(color)), Weight(s))

\* the model's buffer width; the buffer is one row high
Width == 2

Pixels == {<<x, 0>> : x \in 0..(Width - 1)}

Vec4Zero == <<F(0), F(0), F(0), F(0)>>
Ints4Zero == <<0, 0, 0, 0>>
Ints4(c) == [i \in 1..4 |-> c[i].x]
Add4(a, b) == [i \in 1..4 |-> a[i] + b[i]]

\* FrameBuffer::new (image::ImageBuffer::new zero-fills) and the start of
\* the driver's loop
ComputeInit ==
    /\ buffer = [px \in Pixels |-> Vec4Zero]
    /\ sample = 0
    /\ fresh = TRUE
    /\ nValid = [px \in Pixels |-> 0]
    /\ sumValid = [px \in Pixels |-> Ints4Zero]
    /\ sumAll = [px \in Pixels |-> Ints4Zero]
    /\ degenerate = FALSE

(***************************************************************************)
(* The hardware path: marcher::Params, Marcher::new, Renderer::new         *)
(***************************************************************************)
Params == [width : {1, 2}, height : {1, 2}, origin : {"eye_a", "eye_b"},
           fov : {90, 60}, disk_radius : {8, 4}, disk_height : {3, 1}]

NoParams == [width |-> 0, height |-> 0, origin |-> "none",
             fov |-> 0, disk_radius |-> 0, disk_height |-> 0]

MarcherInit ==
    /\ texture = [width |-> 1, height |-> 1, passes |-> 0]
    /\ fov = 90
    /\ disk_radius = 8
    /\ disk_height = 3
    /\ sample_no = 0
    /\ dirty = TRUE
    /\ lastParams = NoParams
    /\ pushed = -1
    /\ recorded = 0

(***************************************************************************)
(* render, lines 424-433: the state on entry to the loop                   *)
(***************************************************************************)
RenderInit ==
    /\ config \in Configs
    /\ p \in PosGrid
    /\ pc = "loop"
    /\ iter = 0
    /\ v = "rd"
    /\ h = "DELTA"
    /\ attenuation = <<1, 1, 1>>
    /\ r = ZeroRadiance
    /\ bounces = 0
    /\ density = "none"
    /\ ret = "none"
    /\ exitBy = "none"
    /\ steps = 0
    /\ integ = {}
    /\ diskSamples = 0
    /\ sdfEvals = 0
    /\ skyLookups = 0
    /\ skyDir = "none"

\* no call of render in progress
RenderIdle ==
    /\ config = [features |-> {},
                 disk |-> [radius |-> 400, thickness |-> 10, color |-> <<3, 2, 1>>]]
    /\ p = Pos(33, 0)
    /\ pc = "idle"
    /\ iter = 0
    /\ v = "rd"
    /\ h = "DELTA"
    /\ attenuation = <<1, 1, 1>>
    /\ r = ZeroRadiance
    /\ bounces = 0
    /\ density = "none"
    /\ ret = "none"
    /\ exitBy = "none"
    /\ steps = 0
    /\ integ = {}
    /\ diskSamples = 0
    /\ sdfEvals = 0
    /\ skyLookups = 0
    /\ skyDir = "none"

\* no pure-function call under way
CallsIdle ==
    /\ fn = "none"
    /\ arg = <<>>
    /\ out = <<>>

\* no par_for_each under way
ParIdle ==
    /\ image = <<>>
    /\ before = <<>>
    /\ func = "none"
    /\ pending = <<>>
    /\ workers = <<>>
    /\ called = <<>>
    /\ overlapped = FALSE

\* App::new (sim/src/app.rs:71-90), no redraw handled yet
SimIdle ==
    /\ accumulate = TRUE
    /\ simPc = "wait"
    /\ drew = "none"

\* the model's cap on the redraws handled and on the events egui holds
MaxRedraws == 3
MaxInput == 2

\* Gui::new (crates/gui/src/lib.rs:52-58) and the locals of run before the
\* first event
GuiIdle ==
    /\ partial = 0
    /\ rawInput = 0
    /\ running = TRUE
    /\ guiPc = "wait"
    /\ redraws = 0
    /\ frame = "none"
    /\ consumed = [k \in 1..MaxRedraws |-> 0]

\* no camera under consideration
CamIdle ==
    /\ camera = <<>>
    /\ given = <<>>
    /\ camLast = "none"
    /\ camCalls = 0

\* no mouse under consideration
MouseIdle ==
    /\ mouse = <<>>
    /\ lastInput = <<>>
    /\ mouseEvents = 0

\* no shader build under way
BuildIdle ==
    /\ files = <<>>
    /\ stack = <<>>
    /\ bpc = "none"
    /\ built = <<>>

\* no file dialog under consideration
DialogIdle ==
    /\ appConfig = "none"
    /\ disk = <<>>
    /\ shown = <<>>
    /\ showOut = <<>>
    /\ shows = 0

Init == RenderInit /\ ComputeInit /\ MarcherInit /\ CallsIdle /\ ParIdle /\ SimIdle /\ GuiIdle /\ CamIdle /\ MouseIdle /\ BuildIdle /\ DialogIdle

\* a loop with no iteration cap (`loop { .. }` for `for _ in 0..MAX_STEPS`)
InLoop_NoCap == pc = "loop"

\* line 435: for _ in 0..MAX_STEPS
InLoop == pc = "loop" /\ iter < MAX_STEPS

history == <<steps, integ, diskSamples, sdfEvals, skyLookups, skyDir>>

\* lines 436-439
Discard ==
    /\ InLoop
    /\ bounces > MAX_BOUNCES
    /\ iter' = iter + 1
    /\ ret' = "sentinel"
    /\ exitBy' = "discard"
    /\ pc' = "returned"
    /\ UNCHANGED <<config, density, p, v, h, attenuation, r, bounces, history>>
    /\ UNCHANGED <<computeVars, marcherVars, callVars, parVars, simVars, guiVars, camVars, mouseVars, buildVars, dialogVars>>

\* the capture branch leaving the loop with `break` instead of `return r`
Capture_Break ==
    /\ InLoop
    /\ ~(bounces > MAX_BOUNCES)
    /\ Captured(p)
    /\ iter' = iter + 1
    /\ exitBy' = "captured"
    /\ pc' = "resolve"
    /\ UNCHANGED <<config, density, p, v, h, attenuation, r, bounces, ret, history>>
    /\ UNCHANGED <<computeVars, marcherVars, callVars, parVars, simVars, guiVars, camVars, mouseVars, buildVars, dialogVars>>

\* lines 441-443
Capture ==
    /\ InLoop
    /\ ~(bounces > MAX_BOUNCES)
    /\ Captured(p)
    /\ iter' = iter + 1
    /\ ret' = "radiance"
    /\ exitBy' = "captured"
    /\ pc' = "returned"
    /\ UNCHANGED <<config, density, p, v, h, attenuation, r, bounces, history>>
    /\ UNCHANGED <<computeVars, marcherVars, callVars, parVars, simVars, guiVars, camVars, mouseVars, buildVars, dialogVars>>

\* the escape test made after the integrator step instead of before it
Escape_AfterStep ==
    /\ InLoop
    /\ ~(bounces > MAX_BOUNCES)
    /\ ~Captured(p)
    /\ Escaped(p)
    /\ iter' = iter + 1
    /\ exitBy' = "escaped"
    /\ pc' = "resolve"
    /\ v' = "bent"
    /\ steps' = steps + 1
    /\ UNCHANGED <<config, density, p, h, attenuation, r, bounces, ret,
                   integ, diskSamples, sdfEvals, skyLookups, skyDir>>
    /\ UNCHANGED <<computeVars, marcherVars, callVars, parVars, simVars, guiVars, camVars, mouseVars, buildVars, dialogVars>>

\* lines 445-447
Escape ==
    /\ InLoop
    /\ ~(bounces > MAX_BOUNCES)
    /\ ~Captured(p)
    /\ Escaped(p)
    /\ iter' = iter + 1
    /\ exitBy' = "escaped"
    /\ pc' = "resolve"
    /\ UNCHANGED <<config, density, p, v, h, attenuation, r, bounces, ret, history>>
    /\ UNCHANGED <<computeVars, marcherVars, callVars, parVars, simVars, guiVars, camVars, mouseVars, buildVars, dialogVars>>

\* the capture test missing from the conditions under which the body goes on
Alive_NoCapture ==
    /\ InLoop
    /\ ~(bounces > MAX_BOUNCES)
    /\ ~Escaped(p)

\* the loop body past its three tests (lines 436-447)
Alive ==
    /\ InLoop
    /\ ~(bounces > MAX_BOUNCES)
    /\ ~Captured(p)
    /\ ~Escaped(p)

UseVol == "DISK_VOL" \in config.features

\* the SDF branch as an `if` of its own instead of an `else if`
UseSdf_NoPrecedence == "DISK_SDF" \in config.features

\* line 466: else if config.features.contains(Features::DISK_SDF)
UseSdf == "DISK_VOL" \notin config.features /\ "DISK_SDF" \in config.features

\* lines 475-488: one integrator step
Integrate(q) ==
    /\ p' = q
    /\ v' = "bent"
    /\ h' = NextH(config.features, h)
    /\ steps' = steps + 1
    /\ integ' = integ \cup {Integrator(config.features)}

\* lines 449-465 and 475-488: sample the volumetric disk, maybe scatter, step
StepVol ==
    /\ Alive
    /\ UseVol
    /\ \E info \in disk_volume(p, config.disk.radius, config.disk.thickness),
          scatter \in BOOLEAN, q \in StepResults :
          /\ scatter => info.distance = "pos"
          /\ r' = AddEmission(r, info.emission)
          /\ attenuation' = IF scatter THEN Tint(attenuation, config.disk.color)
                                       ELSE attenuation
          /\ bounces' = IF scatter THEN bounces + 1 ELSE bounces
          /\ density' = info.distance
          /\ Integrate(q)
    /\ diskSamples' = diskSamples + 1
    /\ iter' = iter + 1
    /\ UNCHANGED <<config, pc, ret, exitBy, sdfEvals, skyLookups, skyDir>>
    /\ UNCHANGED <<computeVars, marcherVars, callVars, parVars, simVars, guiVars, camVars, mouseVars, buildVars, dialogVars>>

\* the hit leaving the loop with `break` instead of returning the colour
SdfHit_Break ==
    /\ Alive
    /\ UseSdf
    /\ ~SdfAt(p, config).panic
    /\ SdfAt(p, config).dist <= 0
    /\ sdfEvals' = sdfEvals + 1
    /\ iter' = iter + 1
    /\ exitBy' = "sdf_hit"
    /\ pc' = "resolve"
    /\ UNCHANGED <<config, density, p, v, h, attenuation, r, bounces, ret,
                   steps, integ, diskSamples, skyLookups, skyDir>>
    /\ UNCHANGED <<computeVars, marcherVars, callVars, parVars, simVars, guiVars, camVars, mouseVars, buildVars, dialogVars>>

\* lines 466-473: the signed distance is <= 0
SdfHit ==
    /\ Alive
    /\ UseSdf
    /\ ~SdfAt(p, config).panic
    /\ SdfAt(p, config).dist <= 0
    /\ sdfEvals' = sdfEvals + 1
    /\ iter' = iter + 1
    /\ ret' = "disk_color"
    /\ exitBy' = "sdf_hit"
    /\ pc' = "returned"
    /\ UNCHANGED <<config, density, p, v, h, attenuation, r, bounces,
                   steps, integ, diskSamples, skyLookups, skyDir>>
    /\ UNCHANGED <<computeVars, marcherVars, callVars, parVars, simVars, guiVars, camVars, mouseVars, buildVars, dialogVars>>

\* line 292: d.x.clamp(d.y, 0.0) with d.y > 0 (or NaN) panics
SdfPanic ==
    /\ Alive
    /\ UseSdf
    /\ SdfAt(p, config).panic
    /\ sdfEvals' = sdfEvals + 1
    /\ iter' = iter + 1
    /\ exitBy' = "panic"
    /\ pc' = "panicked"
    /\ UNCHANGED <<config, density, p, v, h, attenuation, r, bounces, ret,
                   steps, integ, diskSamples, skyLookups, skyDir>>
    /\ UNCHANGED <<computeVars, marcherVars, callVars, parVars, simVars, guiVars, camVars, mouseVars, buildVars, dialogVars>>

\* lines 466-473 and 475-488: the signed distance is > 0, step
StepSdf ==
    /\ Alive
    /\ UseSdf
    /\ ~SdfAt(p, config).panic
    /\ SdfAt(p, config).dist > 0
    /\ \E q \in StepResults : Integrate(q)
    /\ sdfEvals' = sdfEvals + 1
    /\ iter' = iter + 1
    /\ UNCHANGED <<config, density, pc, attenuation, r, bounces, ret, exitBy,
                   diskSamples, skyLookups, skyDir>>
    /\ UNCHANGED <<computeVars, marcherVars, callVars, parVars, simVars, guiVars, camVars, mouseVars, buildVars, dialogVars>>

\* lines 475-488 with no disk enabled
StepNoDisk ==
    /\ Alive
    /\ ~UseVol /\ ~UseSdf
    /\ \E q \in StepResults : Integrate(q)
    /\ iter' = iter + 1
    /\ UNCHANGED <<config, density, pc, attenuation, r, bounces, ret, exitBy,
                   diskSamples, sdfEvals, skyLookups, skyDir>>
    /\ UNCHANGED <<computeVars, marcherVars, callVars, parVars, simVars, guiVars, camVars, mouseVars, buildVars, dialogVars>>

\* line 435: the range 0..MAX_STEPS is used up
Exhaust ==
    /\ pc = "loop"
    /\ iter = MAX_STEPS
    /\ exitBy' = "exhausted"
    /\ pc' = "resolve"
    /\ UNCHANGED <<config, density, iter, p, v, h, attenuation, r, bounces, ret, history>>
    /\ UNCHANGED <<computeVars, marcherVars, callVars, parVars, simVars, guiVars, camVars, mouseVars, buildVars, dialogVars>>

\* lines 491-497
Resolve ==
    /\ pc = "resolve"
    /\ r' = AddSky(r)
    /\ skyLookups' = skyLookups + 1
    /\ skyDir' = <<SkyFunction(config.features), v>>
    /\ ret' = "radiance"
    /\ pc' = "returned"
    /\ UNCHANGED <<config, density, iter, p, v, h, attenuation, bounces, exitBy,
                   steps, integ, diskSamples, sdfEvals>>
    /\ UNCHANGED <<computeVars, marcherVars, callVars, parVars, simVars, guiVars, camVars, mouseVars, buildVars, dialogVars>>

Next ==
    \/ Discard
    \/ Capture
    \/ Escape
    \/ StepVol
    \/ SdfHit
    \/ SdfPanic
    \/ StepSdf
    \/ StepNoDisk
    \/ Exhaust
    \/ Resolve

Spec == Init /\ [][Next]_vars

(***************************************************************************)
(* Claims about `render`                                                   *)
(***************************************************************************)

\* C1: one call of render enters the loop body at most MAX_STEPS = 128
\* times, makes at most one integrator step per iteration, and once the 128
\* iterations are used the call is out of the loop or leaves it at once.
C1_IterationCap ==
    /\ iter <= MAX_STEPS
    /\ steps <= iter
    /\ (iter = MAX_STEPS /\ pc = "loop" => ENABLED Exhaust /\ ~ENABLED StepVol)

\* C1 witness: a sample that used all 128 iterations and left the loop.
C1_Witness ==
    pc = "returned" /\ exitBy = "exhausted" /\ iter = MAX_STEPS /\ steps = MAX_STEPS

\* C5 (as claimed): the kernel never panics, for every feature combination
\* and every position reached.
C5_NeverPanics == pc # "panicked"

\* C6 (as claimed): the sky colour is added to the radiance only when the
\* loop was left through the escape branch.
C6_SkyOnlyOnEscape == r.sky > 0 => exitBy = "escaped"

\* C6 (amended): the sky colour is added exactly once, and exactly when
\* the loop was left through the escape branch or by using up all
\* MAX_STEPS iterations; a sample ended by capture, by the bounce limit or
\* by an SDF hit gets no sky contribution.
C6_SkyOnEscapeOrExhaustion ==
    /\ r.sky = skyLookups
    /\ r.sky <= 1
    /\ (r.sky = 1 <=> pc = "returned" /\ exitBy \in {"escaped", "exhausted"})
    /\ (exitBy \in {"captured", "discard", "sdf_hit"} => r.sky = 0)

\* C6 witness: a sample that never left the skybox in 128 iterations and
\* still got the sky colour.
C6_Witness ==
    pc = "returned" /\ exitBy = "exhausted" /\ ~Escaped(p) /\ r.sky = 1

\* C7: when the initial position is inside BLACKHOLE_RADIUS the first
\* iteration returns the radiance, which is exactly zero, and nothing else
\* (disk sample, integrator step, sky lookup) has been executed.
C7_CapturedAtOnce ==
    [][(iter = 0 /\ Captured(p)) =>
         /\ pc' = "returned"
         /\ ret' = "radiance"
         /\ r' = ZeroRadiance
         /\ iter' = 1
         /\ steps' = 0 /\ diskSamples' = 0 /\ sdfEvals' = 0 /\ skyLookups' = 0]_vars

\* C7 witness: a sample captured in its first iteration.
C7_Witness ==
    pc = "returned" /\ exitBy = "captured" /\ iter = 1 /\ r = ZeroRadiance

\* C8: when the initial position is beyond SKYBOX_RADIUS the first
\* iteration breaks out of the loop with no integrator step and no disk
\* sample, and the resolution makes exactly one sky lookup along the
\* initial direction and returns.
C8_EscapesAtOnce ==
    [][/\ (iter = 0 /\ Escaped(p)) =>
            /\ pc' = "resolve"
            /\ exitBy' = "escaped"
            /\ iter' = 1
            /\ v' = "rd"
            /\ steps' = 0 /\ diskSamples' = 0 /\ sdfEvals' = 0 /\ skyLookups' = 0
       /\ (pc = "resolve" /\ exitBy = "escaped" /\ iter = 1) =>
            /\ pc' = "returned"
            /\ iter' = 1
            /\ steps' = 0
            /\ skyLookups' = 1
            /\ skyDir' = <<SkyFunction(config.features), "rd">>]_vars

\* C8 witness: a sample resolved after escaping in its first iteration.
C8_Witness ==
    /\ pc = "returned" /\ exitBy = "escaped" /\ iter = 1
    /\ steps = 0 /\ skyLookups = 1

\* C11: with DISK_VOL set (alone or together with DISK_SDF) every iteration
\* that reaches the disk evaluates disk_volume only: disk_sdf is never
\* evaluated and the SDF return with the disk colour is never taken; disk_sdf
\* is evaluated only when DISK_SDF is set and DISK_VOL is not.
C11_VolumetricFirst ==
    /\ ("DISK_VOL" \in config.features =>
           /\ sdfEvals = 0
           /\ exitBy # "sdf_hit" /\ ret # "disk_color" /\ pc # "panicked"
           /\ diskSamples = steps)
    /\ (sdfEvals > 0 =>
           "DISK_SDF" \in config.features /\ "DISK_VOL" \notin config.features)
    /\ ("DISK_VOL" \notin config.features => diskSamples = 0)

\* C11 witness: a sample with both disk flags set that went through the
\* disk branch in several iterations and has returned.
C11_Witness ==
    /\ {"DISK_VOL", "DISK_SDF"} \subseteq config.features
    /\ pc = "returned"
    /\ diskSamples >= 2

\* C12: every integrator step of a sample applies the same single
\* integrator: bogacki_shampine when ADAPTIVE is set (with or without RK4),
\* rk4 when RK4 is set and ADAPTIVE is not, euler when neither is set; and
\* each iteration makes at most one step.
C12_OneIntegrator ==
    /\ (steps = 0 => integ = {})
    /\ (steps > 0 =>
           integ = IF "ADAPTIVE" \in config.features THEN {"bogacki_shampine"}
                   ELSE IF "RK4" \in config.features THEN {"rk4"}
                   ELSE {"euler"})
    /\ steps <= iter

\* C12 witness: a sample with both RK4 and ADAPTIVE set that made several
\* steps, all of them adaptive.
C12_Witness ==
    /\ {"RK4", "ADAPTIVE"} \subseteq config.features
    /\ steps >= 2
    /\ integ = {"bogacki_shampine"}

\* C13 (as claimed): the attenuation starts at white, changes only at a
\* scattering event (where bounces goes up by one), and no component ever
\* increases, for every disk colour a configuration can hold.  (The
\* components are in units of 10^-bounces.)
C13_AttenuationNeverIncreases ==
    [][/\ (iter = 0 => attenuation = <<1, 1, 1>>)
       /\ (bounces' = bounces => attenuation' = attenuation)
       /\ (bounces' # bounces =>
              \A i \in 1..3 : attenuation'[i] <= 10 * attenuation[i])]_vars

\* C20: with the SDF disk selected, an iteration that reaches the disk test
\* with a signed distance <= 0 returns the configured disk colour at once:
\* no integrator step, no change of position or radiance, no sky lookup,
\* and nothing runs after the return.
C20_SdfHitReturnsDiskColor ==
    /\ [][(Alive /\ UseSdf /\ ~SdfAt(p, config).panic /\ SdfAt(p, config).dist <= 0) =>
             /\ pc' = "returned"
             /\ ret' = "disk_color"
             /\ iter' = iter + 1
             /\ steps' = steps /\ integ' = integ
             /\ p' = p /\ r' = r
             /\ skyLookups' = 0 /\ r'.sky = 0]_vars
    /\ [](pc = "returned" => ~ENABLED Next)

\* C20 witness: a sample that stepped from outside the disk to a point of
\* it and returned the disk colour there.
C20_Witness ==
    /\ pc = "returned" /\ exitBy = "sdf_hit" /\ ret = "disk_color"
    /\ steps >= 1
    /\ skyLookups = 0

\* b * b * .. * b, n times
RECURSIVE Power(_, _)
Power(b, n) == IF n = 0 THEN 1 ELSE b * Power(b, n - 1)

\* C21: the bounce count never exceeds MAX_BOUNCES + 1 = 5 and the
\* attenuation is the disk colour raised component-wise to the bounce count;
\* the count grows by at most one per iteration, and only in an iteration
\* that sampled the volumetric disk and found density > 0, and the loop goes
\* on after it; the sentinel is returned only by an iteration that starts
\* with five bounces already made, so after the one that made the fifth.
C21_BouncesBounded ==
    /\ [](/\ bounces <= MAX_BOUNCES + 1
          /\ bounces <= iter
          /\ attenuation = [i \in 1..3 |-> Power(config.disk.color[i], bounces)])
    /\ [][bounces' # bounces =>
             /\ bounces' = bounces + 1
             /\ iter' = iter + 1
             /\ diskSamples' = diskSamples + 1
             /\ density' = "pos"
             /\ pc' = "loop"]_vars
    /\ [][(ret # "sentinel" /\ ret' = "sentinel") =>
             /\ bounces = MAX_BOUNCES + 1
             /\ bounces' = bounces
             /\ iter' = iter + 1
             /\ iter >= MAX_BOUNCES + 1]_vars

\* a sample discarded with five bounces made, the attenuation being the
\* fifth power of a colour other than black or white
C21_Witness ==
    /\ pc = "returned" /\ ret = "sentinel"
    /\ bounces = MAX_BOUNCES + 1
    /\ density = "pos"
    /\ attenuation = <<243, 32, 1>>

(***************************************************************************)
(* Renderer::compute (software), driven by `for sample in 0..samples`      *)
(* (kerrbhy/src/main.rs:203-205).  par_for_each runs the closure once per  *)
(* pixel; render hands each pixel one of RenderReturns.                    *)
(***************************************************************************)
Pass(s, rets) ==
    /\ buffer' = [px \in Pixels |-> ComputePixel(buffer[px], rets[px], s)]
    /\ sample' = s + 1
    /\ degenerate' = (degenerate \/ \E px \in Pixels : rets[px] \in {NaNColor, InfColor})

NotDiscarded(color) == IF Discarded(color) THEN 0 ELSE 1
ValidPart(color) == IF Discarded(color) THEN Ints4Zero ELSE Ints4(Blended(color))

\* compute(sample) with the next index of the loop
Compute ==
    /\ sample < MaxSamples
    /\ \E rets \in [Pixels -> RenderReturns] :
          /\ Pass(sample, rets)
          /\ nValid' = [px \in Pixels |-> nValid[px] + NotDiscarded(rets[px])]
          /\ sumValid' = [px \in Pixels |-> Add4(sumValid[px], ValidPart(rets[px]))]
          /\ sumAll' = [px \in Pixels |-> Add4(sumAll[px], Ints4(Blended(rets[px])))]
    /\ fresh' = fresh
    /\ UNCHANGED <<renderVars, marcherVars, callVars, parVars, simVars, guiVars, camVars, mouseVars, buildVars, dialogVars>>

\* compute(0) on a buffer that has accumulated: the loop run once more on
\* the same Renderer (compute is public and takes the index from its caller)
ComputeAgain ==
    /\ sample > 0
    /\ \E rets \in [Pixels -> RenderReturns] :
          /\ Pass(0, rets)
          /\ nValid' = [px \in Pixels |-> NotDiscarded(rets[px])]
          /\ sumValid' = [px \in Pixels |-> ValidPart(rets[px])]
          /\ sumAll' = [px \in Pixels |-> Ints4(Blended(rets[px]))]
    /\ fresh' = FALSE
    /\ UNCHANGED <<renderVars, marcherVars, callVars, parVars, simVars, guiVars, camVars, mouseVars, buildVars, dialogVars>>

NextCompute ==
    \/ Compute
    \/ ComputeAgain

InitCompute == RenderIdle /\ ComputeInit /\ MarcherInit /\ CallsIdle /\ ParIdle /\ SimIdle /\ GuiIdle /\ CamIdle /\ MouseIdle /\ BuildIdle /\ DialogIdle

SpecCompute == InitCompute /\ [][NextCompute]_vars

\* C2 (as claimed): a discarded sample is left out of the average: after
\* every call a pixel that has non-discarded samples holds their mean.
C2_DiscardedExcluded ==
    \A px \in Pixels : nValid[px] > 0 =>
        \A i \in 1..4 : /\ IsFin(buffer[px][i])
                        /\ buffer[px][i].x * nValid[px] = Scale * sumValid[px][i]

\* C3 (as claimed): a pixel of a fresh buffer all of whose samples were
\* discarded still holds (0, 0, 0, 0).
C3_AllDiscardedKeepsInitial ==
    \A px \in Pixels : (fresh /\ nValid[px] = 0) => buffer[px] = Vec4Zero

\* C4: no pixel component is ever NaN, infinite or negative, whatever
\* render handed back.
C4_BufferFiniteNonNegative ==
    \A px \in Pixels : \A i \in 1..4 : IsFin(buffer[px][i]) /\ buffer[px][i].x >= 0

\* C4 witness: the loop has run to its end with a NaN or infinite colour
\* and the sentinel among the samples of a pixel.
C4_Witness ==
    /\ sample = MaxSamples
    /\ degenerate
    /\ \E px \in Pixels : nValid[px] = 0

MaxPasses == 3

\* shaders/marcher/src/lib.rs:122-130
Dirty(params) ==
    LET dimensions_changed ==
            params.width # texture.width \/ params.height # texture.height
        disk_changed ==
            disk_radius # params.disk_radius \/ disk_height # params.disk_height
        fov_changed == fov # params.fov
    IN dimensions_changed \/ fov_changed \/ disk_changed

\* Renderer::update (hardware/renderer/src/lib.rs:51-53) calling
\* Marcher::update (shaders/marcher/src/lib.rs:111-138)
RendererUpdate(params) ==
    /\ disk_radius' = params.disk_radius
    /\ disk_height' = params.disk_height
    /\ fov' = params.fov
    \* recreate_buffer: a new, empty texture
    /\ texture' = IF Dirty(params)
                  THEN [width |-> params.width, height |-> params.height,
                        passes |-> 0]
                  ELSE texture
    /\ sample_no' = IF Dirty(params) THEN 0 ELSE sample_no
    /\ dirty' = Dirty(params)
    /\ lastParams' = params
    /\ recorded' = IF Dirty(params) THEN 0 ELSE recorded
    /\ UNCHANGED pushed

Update ==
    /\ \E params \in Params : RendererUpdate(params)
    /\ UNCHANGED <<renderVars, computeVars, callVars, parVars, simVars, guiVars, camVars, mouseVars, buildVars, dialogVars>>

\* Renderer::compute (hardware/renderer/src/lib.rs:57-59) calling
\* Marcher::record (shaders/marcher/src/lib.rs:141-180)
\* the counter incremented before the push constants are built
Record_IncrementFirst ==
    /\ sample_no < MaxPasses
    /\ pushed' = sample_no + 1
    /\ sample_no' = sample_no + 1
    /\ texture' = [texture EXCEPT !.passes = @ + 1]
    /\ recorded' = recorded + 1
    /\ UNCHANGED <<fov, disk_radius, disk_height, dirty, lastParams>>
    /\ UNCHANGED <<renderVars, computeVars, callVars, parVars, simVars, guiVars, camVars, mouseVars, buildVars, dialogVars>>

RendererCompute ==
    /\ sample_no < MaxPasses
    /\ pushed' = sample_no
    /\ sample_no' = sample_no + 1
    \* the pass dispatched blends one more sample into the texture
    /\ texture' = [texture EXCEPT !.passes = @ + 1]
    /\ recorded' = recorded + 1
    /\ UNCHANGED <<fov, disk_radius, disk_height, dirty, lastParams>>

Record ==
    /\ RendererCompute
    /\ UNCHANGED <<renderVars, computeVars, callVars, parVars, simVars, guiVars, camVars, mouseVars, buildVars, dialogVars>>

NextMarcher ==
    \/ Update
    \/ Record

InitMarcher == RenderIdle /\ ComputeInit /\ MarcherInit /\ CallsIdle /\ ParIdle /\ SimIdle /\ GuiIdle /\ CamIdle /\ MouseIdle /\ BuildIdle /\ DialogIdle

SpecMarcher == InitMarcher /\ [][NextMarcher]_vars

\* C9 (as claimed): every update whose parameters differ from those of the
\* update before it (resolution, fov, disk, camera origin) reports dirty
\* and resets sample_no to zero.
C9_EveryChangeResets ==
    [][(lastParams # NoParams /\ lastParams' # lastParams) =>
          (dirty' /\ sample_no' = 0)]_vars

\* C22: record pushes, as sample index, the number of record calls made
\* since the last update that returned dirty (since Marcher::new before
\* the first such update), so 0 for the first pass after a reset and one
\* more for each pass after it; an update that returns not-dirty leaves the
\* sample counter and the accumulation texture as they were.
C22_SampleIndexCountsPasses ==
    /\ [](sample_no = recorded /\ texture.passes = recorded)
    /\ [][recorded' = recorded + 1 => pushed' = recorded]_vars
    /\ [][(recorded' = recorded /\ ~dirty') =>
             (sample_no' = sample_no /\ texture' = texture /\ pushed' = pushed)]_vars
    /\ [][dirty' => (sample_no' = 0 \/ recorded' = recorded + 1)]_vars

\* two passes recorded on either side of an update that was not dirty,
\* after one that was
C22_Witness ==
    /\ lastParams # NoParams
    /\ ~dirty
    /\ texture.width = 2
    /\ pushed = 1
    /\ sample_no = 2

(***************************************************************************)
(* The interactive simulator (sim/src/app.rs) under the event loop         *)
(* (hardware/event/src/lib.rs:203-286): a handled RedrawRequested calls    *)
(* App::update and then App::draw.                                         *)
(***************************************************************************)
\* a pass recorded only while accumulating
MustCompute_AccumulateOnly == accumulate

\* sim/src/app.rs:256: self.accumulate || self.renderer.must_render()
MustCompute == accumulate \/ dirty

\* App::update (202-242): the renderer is updated with the window size and
\* the configuration, then the ui runs, whose checkbox may flip accumulate
SimUpdate ==
    /\ simPc = "wait"
    /\ \E params \in Params : RendererUpdate(params)
    /\ accumulate' \in BOOLEAN
    /\ simPc' = "updated"
    /\ UNCHANGED drew
    /\ UNCHANGED <<renderVars, computeVars, callVars, parVars, guiVars, camVars, mouseVars, buildVars, dialogVars>>

\* App::draw (244-268) with work to compute
SimDrawCompute ==
    /\ simPc = "updated"
    /\ MustCompute
    /\ RendererCompute
    /\ drew' = TRUE
    /\ simPc' = "wait"
    /\ UNCHANGED accumulate
    /\ UNCHANGED <<renderVars, computeVars, callVars, parVars, guiVars, camVars, mouseVars, buildVars, dialogVars>>

\* App::draw (244-268) with nothing to compute: the texture is shown as it is
SimDrawOnly ==
    /\ simPc = "updated"
    /\ ~MustCompute
    /\ drew' = FALSE
    /\ simPc' = "wait"
    /\ UNCHANGED accumulate
    /\ UNCHANGED <<renderVars, computeVars, marcherVars, callVars, parVars, guiVars, camVars, mouseVars, buildVars, dialogVars>>

NextSim ==
    \/ SimUpdate
    \/ SimDrawCompute
    \/ SimDrawOnly

InitSim == RenderIdle /\ ComputeInit /\ MarcherInit /\ CallsIdle /\ ParIdle /\ SimIdle /\ GuiIdle /\ CamIdle /\ MouseIdle /\ BuildIdle /\ DialogIdle

SpecSim == InitSim /\ [][NextSim]_vars

\* C23: a frame records a compute pass if and only if accumulate is on or
\* must_render() is true; must_render() is true before the first update
\* and afterwards is the result of the latest update.  So with accumulate
\* off a frame whose update found nothing changed leaves the sample counter
\* and the texture alone, and a frame whose update found the resolution,
\* the fov or the disk changed records a pass, with sample index 0.
C23_ComputeIffNeeded ==
    /\ [](lastParams = NoParams => dirty)
    /\ [][(simPc = "wait" /\ simPc' = "updated") =>
             dirty' = Dirty(lastParams')]_vars
    /\ [][(simPc = "updated" /\ simPc' = "wait") =>
             /\ (sample_no' = sample_no + 1) <=> (accumulate \/ dirty)
             /\ drew' = (accumulate \/ dirty)
             /\ (accumulate \/ dirty) => pushed' = sample_no
             /\ dirty => pushed' = 0
             /\ ~(accumulate \/ dirty) =>
                   (sample_no' = sample_no /\ texture' = texture /\ pushed' = pushed)]_vars

\* with accumulate off: a frame that recorded no pass, after frames that did
C23_Witness ==
    /\ simPc = "wait"
    /\ ~accumulate
    /\ drew = FALSE
    /\ ~dirty
    /\ sample_no = 2

(***************************************************************************)
(* Single calls of the kernel's pure functions: the arguments are drawn    *)
(* when the behaviour starts, one action per function applies it.          *)
(***************************************************************************)
\* points (rho, y), in tenths
CallPoints == {Pos(rho, y) : rho \in {0, 6, 10, 21, 45}, y \in {-4, -1, 0, 1, 2, 4}}

DiskVolumeArgs ==
    [f : {"disk_volume"}, p : CallPoints, radius : {50, 400}, thickness : {5, 10}]

\* half-heights and radii in tenths
DiskSdfArgs ==
    [f : {"disk_sdf"}, p : CallPoints, h : {0, 1, 3}, r : {0, 10, 21}]

(***************************************************************************)
(* gravitational_field on points <<x, y, z>> (tenths) whose length is a    *)
(* whole number of tenths; the result is the exact vector n / d.           *)
(***************************************************************************)
RECURSIVE GCD(_, _)
GCD(a, b) == IF b = 0 THEN Abs(a) ELSE GCD(Abs(b), Abs(a) % Abs(b))

Dot(a, b) == a[1] * b[1] + a[2] * b[2] + a[3] * b[3]

\* Vec3::length
Length(q) == CHOOSE s \in 0..20 : s * s = Dot(q, q)

\* the vector n / d in lowest terms
Reduced(n, d) ==
    LET g == GCD(GCD(n[1], n[2]), GCD(n[3], d))
    IN [n |-> [i \in 1..3 |-> n[i] \div g], d |-> d \div g]

\* the field of the position itself instead of p / BLACKHOLE_RADIUS
gravitational_field_Unscaled(q) ==
    LET rn == Length(q)
    IN Reduced([i \in 1..3 |-> -6 * q[i] * 10 * 10 * 10 * 10],
               rn * rn * rn * rn * rn)

\* lines 345-349: r = p / BLACKHOLE_RADIUS; -6.0 * r / rn^5.  With rn = L / R
\* this is -6 * (p / R) * R^5 / L^5.
gravitational_field(q) ==
    LET R == BLACKHOLE_RADIUS
        rn == Length(q)
    IN Reduced([i \in 1..3 |-> -6 * q[i] * R * R * R * R],
               rn * rn * rn * rn * rn)

\* points at distance 0.6 (the horizon) and 1.2 from the origin
FieldPoints ==
    {q \in (-12..12) \X (-12..12) \X (-12..12) : Dot(q, q) \in {36, 144}}

FieldArgs == [f : {"gravitational_field"}, p : FieldPoints]

(***************************************************************************)
(* f32 arithmetic, for the integrators: a value is NaN, an infinity or     *)
(* s * m * 2^e with s = 1 or -1 and m = 0 or 2^23 <= m < 2^24.  Results    *)
(* are rounded to nearest, ties to even, and overflow to an infinity; the  *)
(* sign of a zero and subnormal numbers are not modelled.                  *)
(***************************************************************************)
\* a value computed once and named: Op applied to it
With(a, Op(_)) == Op(a)

Pow2(n) == 2 ^ n

\* the number of bits of n (0 <= n < 2^31)
BitLen(n) == Cardinality({k \in 0..30 : Pow2(k) <= n})

Fl(s, m, e) == [k |-> "fin", s |-> s, m |-> m, e |-> e]
F32Zero == Fl(1, 0, 0)
F32Inf(s) == [k |-> "inf", s |-> s, m |-> 0, e |-> 0]
F32NaN == [k |-> "nan", s |-> 1, m |-> 0, e |-> 0]

IsZero(a) == a.k = "fin" /\ a.m = 0

\* the f32 nearest to M * 2^e (plus, when sticky, a non-zero part below the
\* last bit of M)
Round(s, M, e, sticky) ==
    IF M = 0 THEN F32Zero
    ELSE With(BitLen(M) - 24, LAMBDA k :
         With(IF k <= 0 THEN M * Pow2(-k)
              ELSE LET q == M \div Pow2(k)
                       rem == M % Pow2(k)
                       half == Pow2(k - 1)
                       up == rem > half \/ (rem = half /\ (sticky \/ q % 2 = 1))
                   IN IF up THEN q + 1 ELSE q,
              LAMBDA m :
         With(IF m = Pow2(24) THEN Fl(s, Pow2(23), e + k + 1) ELSE Fl(s, m, e + k),
              LAMBDA res :
         IF res.e + 23 > 127 THEN F32Inf(s) ELSE res)))

\* a whole number n as f32 (|n| < 2^24)
FromInt(n) == Round(IF n < 0 THEN -1 ELSE 1, Abs(n), 0, FALSE)

\* |a| < |b| for finite a, b
MagLess(a, b) ==
    IF b.m = 0 THEN FALSE
    ELSE IF a.m = 0 THEN TRUE
    ELSE a.e < b.e \/ (a.e = b.e /\ a.m < b.m)

\* a < b (false when either is NaN)
F32Less(a, b) ==
    CASE a.k = "nan" \/ b.k = "nan" -> FALSE
      [] a.k = "inf" -> a.s = -1 /\ ~(b.k = "inf" /\ b.s = -1)
      [] b.k = "inf" -> b.s = 1
      [] IsZero(a) -> ~IsZero(b) /\ b.s = 1
      [] IsZero(b) -> a.s = -1
      [] a.s # b.s -> a.s = -1
      [] a.s = 1 -> MagLess(a, b)
      [] OTHER -> MagLess(b, a)

F32Neg(a) == IF a.k = "nan" \/ IsZero(a) THEN a ELSE [a EXCEPT !.s = -a.s]

\* the 48-bit product of two mantissas, in two 24-bit halves
MulFinite(a, b) ==
    LET B == Pow2(12)
        a1 == a.m \div B
        a0 == a.m % B
        b1 == b.m \div B
        b0 == b.m % B
        mid == a1 * b0 + a0 * b1
        low == a0 * b0 + (mid % B) * B
        lo == low % (B * B)
        hi == a1 * b1 + mid \div B + low \div (B * B)
        sh == IF hi \div Pow2(23) = 1 THEN 21 ELSE 20
    IN Round(a.s * b.s, hi * Pow2(24 - sh) + lo \div Pow2(sh),
             a.e + b.e + sh, lo % Pow2(sh) # 0)

F32Mul(a, b) ==
    CASE a.k = "nan" \/ b.k = "nan" -> F32NaN
      [] a.k = "inf" /\ IsZero(b) -> F32NaN
      [] b.k = "inf" /\ IsZero(a) -> F32NaN
      [] a.k = "inf" \/ b.k = "inf" -> F32Inf(a.s * b.s)
      [] IsZero(a) \/ IsZero(b) -> F32Zero
      [] OTHER -> MulFinite(a, b)

\* `bits` more bits of the quotient q.. of rem / d, and what is left
RECURSIVE LongDiv(_, _, _, _)
LongDiv(rem, d, bits, q) ==
    IF bits = 0 THEN <<q, rem>>
    ELSE IF 2 * rem >= d THEN LongDiv(2 * rem - d, d, bits - 1, 2 * q + 1)
         ELSE LongDiv(2 * rem, d, bits - 1, 2 * q)

DivFinite(a, b) ==
    LET qr == LongDiv(a.m % b.m, b.m, 26, a.m \div b.m)
    IN Round(a.s * b.s, qr[1], a.e - b.e - 26, qr[2] # 0)

F32Div(a, b) ==
    CASE a.k = "nan" \/ b.k = "nan" -> F32NaN
      [] a.k = "inf" /\ b.k = "inf" -> F32NaN
      [] a.k = "inf" -> F32Inf(a.s * b.s)
      [] b.k = "inf" -> F32Zero
      [] IsZero(a) /\ IsZero(b) -> F32NaN
      [] IsZero(b) -> F32Inf(a.s)
      [] IsZero(a) -> F32Zero
      [] OTHER -> DivFinite(a, b)

\* big + sml for finite non-zero values with |big| >= |sml|
AddFinite(big, sml) ==
    LET d == big.e - sml.e
        A == big.m * 8
        S == sml.m * 8
        B == IF d > 27 THEN 0 ELSE S \div Pow2(d)
        st == IF d > 27 THEN TRUE ELSE S % Pow2(d) # 0
    IN IF big.s = sml.s THEN Round(big.s, A + B, big.e - 3, st)
       ELSE Round(big.s, IF st THEN A - B - 1 ELSE A - B, big.e - 3, st)

F32Add(a, b) ==
    CASE a.k = "nan" \/ b.k = "nan" -> F32NaN
      [] a.k = "inf" /\ b.k = "inf" -> IF a.s = b.s THEN a ELSE F32NaN
      [] a.k = "inf" -> a
      [] b.k = "inf" -> b
      [] IsZero(a) -> b
      [] IsZero(b) -> a
      [] MagLess(a, b) -> AddFinite(b, a)
      [] OTHER -> AddFinite(a, b)

F32Sub(a, b) == F32Add(a, F32Neg(b))

\* the root, bit by bit: two more bits of the radicand per step
RECURSIVE SqrtBits(_, _, _, _)
SqrtBits(M, pairs, rem, root) ==
    IF pairs = 0 THEN <<root, rem>>
    ELSE LET two == IF pairs > 13 THEN (M \div Pow2(2 * (pairs - 14))) % 4 ELSE 0
             cur == 4 * rem + two
             t == 4 * root + 1
         IN IF cur >= t THEN SqrtBits(M, pairs - 1, cur - t, 2 * root + 1)
            ELSE SqrtBits(M, pairs - 1, cur, 2 * root)

\* f32::sqrt
F32Sqrt(a) ==
    CASE a.k = "nan" -> F32NaN
      [] IsZero(a) -> F32Zero
      [] a.s = -1 -> F32NaN
      [] a.k = "inf" -> a
      [] OTHER ->
           \* m * 2^e = M * 2^E with E even and M < 2^26: 13 pairs of bits,
           \* followed by 13 pairs of zeros
           LET odd == a.e % 2 = 1
               M == IF odd THEN 2 * a.m ELSE a.m
               E == IF odd THEN a.e - 1 ELSE a.e
               rr == SqrtBits(M, 26, 0, 0)
           IN Round(1, rr[1], (E \div 2) - 13, rr[2] # 0)

\* f32::max: the other operand when one is NaN
F32Max(a, b) ==
    IF a.k = "nan" THEN b
    ELSE IF b.k = "nan" THEN a
    ELSE IF F32Less(a, b) THEN b ELSE a

\* f32::clamp for min <= max: NaN stays NaN
F32Clamp(x, lo, hi) ==
    IF F32Less(x, lo) THEN lo
    ELSE IF F32Less(hi, x) THEN hi
    ELSE x

\* the f32 nearest to n / d
Lit(n, d) == F32Div(FromInt(n), FromInt(d))

(***************************************************************************)
(* The integrators, in f32, for motion along one axis: the state           *)
(* mat2x3(p, v) is the pair [x |-> p.x, y |-> v.x], the other components   *)
(* of p and v being 0.  Every operation on the state is componentwise      *)
(* except the two lengths.                                                 *)
(***************************************************************************)
Mat(a, b) == [x |-> a, y |-> b]
MatAdd(a, b) == Mat(F32Add(a.x, b.x), F32Add(a.y, b.y))
MatSub(a, b) == Mat(F32Sub(a.x, b.x), F32Sub(a.y, b.y))
\* f32 * Mat3
MatScale(c, a) == Mat(F32Mul(c, a.x), F32Mul(c, a.y))

\* lines 345-349 on the axis: r.length() is sqrt(r.x * r.x)
gravitational_field_f32(q) ==
    With(F32Div(q, Lit(BLACKHOLE_RADIUS, 10)), LAMBDA rr :
    With(F32Sqrt(F32Mul(rr, rr)), LAMBDA rn :
    With(F32Mul(F32Mul(F32Mul(F32Mul(rn, rn), rn), rn), rn), LAMBDA rn5 :
        F32Div(F32Mul(FromInt(-6), rr), rn5))))

\* lines 352-358
ode(st) == Mat(st.y, gravitational_field_f32(st.x))

\* lines 364-366
euler(st, hh) == MatScale(hh, ode(st))

\* rk4 handing back the new state instead of the delta
rk4_NewState(st, hh) == MatAdd(st, euler(st, hh))

\* lines 374-377: k1 .. k4
Rk4Stages(st, hh) ==
    With(ode(st), LAMBDA k1 :
    With(ode(MatAdd(st, MatScale(F32Mul(Lit(1, 2), hh), k1))), LAMBDA k2 :
    With(ode(MatAdd(st, MatScale(F32Mul(Lit(1, 2), hh), k2))), LAMBDA k3 :
    With(ode(MatAdd(st, MatScale(hh, k3))), LAMBDA k4 :
        <<k1, k2, k3, k4>>))))

\* line 380: h / 6.0 * (k1 + 2.0 * (k2 + k3) + k4)
rk4(st, hh) ==
    With(Rk4Stages(st, hh), LAMBDA k :
        MatScale(F32Div(hh, FromInt(6)),
                 MatAdd(MatAdd(k[1], MatScale(FromInt(2), MatAdd(k[2], k[3]))), k[4])))

\* lines 386-391
H_MIN == Lit(1, 100000000)
H_MAX == Lit(1, 10)
ERR_TOLERANCE == Lit(1, 100000)

\* lines 396-398: k1 .. k3
BsStages(st, h0) ==
    With(ode(st), LAMBDA k1 :
    With(ode(MatAdd(st, MatScale(F32Mul(Lit(1, 2), h0), k1))), LAMBDA k2 :
    With(ode(MatAdd(st, MatScale(F32Mul(Lit(3, 4), h0), k2))), LAMBDA k3 :
        <<k1, k2, k3>>)))

\* line 401: A[0] * h0 * k1 + A[1] * h0 * k2 + A[2] * h0 * k3
BsStep(k, c) ==
    MatAdd(MatAdd(MatScale(F32Mul(Lit(2, 9), c), k[1]),
                  MatScale(F32Mul(Lit(1, 3), c), k[2])),
           MatScale(F32Mul(Lit(4, 9), c), k[3]))

\* lines 404-411: the magnitude of the difference of the two estimates
BsError(st, h0) ==
    With(BsStages(st, h0), LAMBDA k :
    With(BsStep(k, h0), LAMBDA step :
    With(ode(MatAdd(st, step)), LAMBDA k4 :
    With(MatAdd(MatAdd(MatAdd(MatScale(F32Mul(Lit(7, 24), h0), k[1]),
                              MatScale(F32Mul(Lit(1, 4), h0), k[2])),
                       MatScale(F32Mul(Lit(1, 3), h0), k[3])),
                MatScale(F32Mul(Lit(1, 8), h0), k4)), LAMBDA better :
    With(MatSub(better, step), LAMBDA err :
    With(F32Max(err.x, err.y), LAMBDA largest :
        [k4 |-> k4, err |-> F32Sqrt(F32Mul(largest, largest))]))))))

\* a step size that is not clamped
StepControl_NoClamp(h0, err) ==
    LET xq == F32Div(F32Mul(ERR_TOLERANCE, Lit(1, 2)), err)
        dstep == F32Sqrt(xq)
    IN F32Mul(Lit(9, 10), F32Mul(h0, dstep))

\* lines 413-419 (x.powf(0.5) taken as the square root)
StepControl(h0, err) ==
    LET xq == F32Div(F32Mul(ERR_TOLERANCE, Lit(1, 2)), err)
        dstep == F32Sqrt(xq)
    IN F32Mul(Lit(9, 10), F32Clamp(F32Mul(h0, dstep), H_MIN, H_MAX))

\* lines 385-422: the delta returned and the step size left in *h
bogacki_shampine(st, h0) ==
    [step |-> BsStep(BsStages(st, h0), h0),
     h |-> StepControl(h0, BsError(st, h0).err)]

\* line 39
DELTA == Lit(5, 100)

\* 2^30: so far out that rn^5 overflows and the field is 0
FarOut == Fl(1, Pow2(23), 7)

\* states (p, v) on the axis and step sizes: between horizon and skybox,
\* and far out; DELTA, 1/16 and the two ends of the adaptive range
IntegratorStates ==
    {Mat(x, y) : x \in {Lit(3, 4), FromInt(1), FromInt(2), Lit(7, 2), FarOut},
                 y \in {FromInt(1), FromInt(-1), FromInt(2), FromInt(-2),
                        Lit(1, 2), Lit(-3, 10), Lit(21, 10), FromInt(5)}}

StepSizes == {DELTA, Lit(1, 16), Lit(1, 100),
              F32Mul(Lit(9, 10), H_MAX), F32Mul(Lit(9, 10), H_MIN)}

IntegratorArgs ==
    [f : {"euler", "rk4", "bogacki_shampine"}, s : IntegratorStates,
     h : StepSizes, n : {0}]

CallArgs == DiskVolumeArgs \cup DiskSdfArgs \cup FieldArgs \cup IntegratorArgs

CallsInit ==
    /\ fn = "none"
    /\ arg \in CallArgs
    /\ out = <<>>

Call(name, result) ==
    /\ fn = "none"
    /\ arg.f = name
    /\ fn' = name
    /\ out' = result
    /\ UNCHANGED arg
    /\ UNCHANGED <<renderVars, computeVars, marcherVars, parVars, simVars, guiVars, camVars, mouseVars, buildVars, dialogVars>>

CallDiskVolume == Call("disk_volume", disk_volume(arg.p, arg.radius, arg.thickness))

CallDiskSdf == Call("disk_sdf", disk_sdf(arg.p, arg.h, arg.r))

CallGravitationalField == Call("gravitational_field", gravitational_field(arg.p))

\* render, lines 475-483: the integrator called with (s, h); acc are the
\* accelerations of the stages it evaluated
CallEuler ==
    Call("euler", [delta |-> euler(arg.s, arg.h), h |-> arg.h,
                   acc |-> {ode(arg.s).y}])

CallRk4 ==
    Call("rk4", [delta |-> rk4(arg.s, arg.h), h |-> arg.h,
                 acc |-> {Rk4Stages(arg.s, arg.h)[i].y : i \in 1..4}])

BsResult(st, h0) ==
    With(bogacki_shampine(st, h0), LAMBDA res :
    With(BsError(st, h0), LAMBDA e :
        [delta |-> res.step, h |-> res.h, err |-> e.err,
         acc |-> {BsStages(st, h0)[i].y : i \in 1..3} \cup {e.k4.y}]))

CallBogackiShampine == Call("bogacki_shampine", BsResult(arg.s, arg.h))

\* the model's cap on the adaptive steps taken one after another
MaxAdaptiveSteps == 3

\* render, lines 441-447 and 475-488, with ADAPTIVE set: p += step.x_axis,
\* v += step.y_axis, and the next iteration steps again with the h left
StepAgain ==
    /\ fn = "bogacki_shampine"
    /\ arg.n < MaxAdaptiveSteps
    /\ LET st == MatAdd(arg.s, out.delta)
           len2 == F32Mul(st.x, st.x)
           bh == Lit(BLACKHOLE_RADIUS, 10)
           sky == Lit(SKYBOX_RADIUS, 10)
       IN /\ ~F32Less(len2, F32Mul(bh, bh))
          /\ ~F32Less(F32Mul(sky, sky), len2)
          /\ arg' = [arg EXCEPT !.s = st, !.h = out.h, !.n = @ + 1]
          /\ out' = BsResult(st, out.h)
    /\ UNCHANGED fn
    /\ UNCHANGED <<renderVars, computeVars, marcherVars, parVars, simVars, guiVars, camVars, mouseVars, buildVars, dialogVars>>

NextCalls ==
    \/ CallDiskVolume
    \/ CallDiskSdf
    \/ CallGravitationalField
    \/ CallEuler
    \/ CallRk4
    \/ CallBogackiShampine
    \/ StepAgain

InitCalls == RenderIdle /\ ComputeInit /\ MarcherInit /\ CallsInit /\ ParIdle /\ SimIdle /\ GuiIdle /\ CamIdle /\ MouseIdle /\ BuildIdle /\ DialogIdle

SpecCalls == InitCalls /\ [][NextCalls]_vars

DiskInfoZero == [emission |-> "zero", distance |-> "zero"]

\* C14 (as claimed): disk_volume(p, radius, thickness) returns zero emission
\* and zero distance whenever |p.xz| > radius or |p.y| > thickness, for
\* every radius and thickness, those below 1 included.
C14_ZeroOutsideDisk ==
    (fn = "disk_volume"
       /\ (10 * arg.p.rho > arg.radius \/ 10 * Abs(arg.p.y) > arg.thickness))
    => out = {DiskInfoZero}

\* C15 (as claimed): disk_sdf(p, h, r) returns 0 on the surface of the
\* cylinder, a negative value strictly inside and a positive value strictly
\* outside, points above or below the slab (|p.y| > h) included.
C15_SdfSign ==
    fn = "disk_sdf" =>
        LET inside == arg.p.rho < arg.r /\ Abs(arg.p.y) < arg.h
            outside == arg.p.rho > arg.r \/ Abs(arg.p.y) > arg.h
        IN /\ ~out.panic
           /\ inside => out.dist < 0
           /\ outside => out.dist > 0
           /\ (~inside /\ ~outside) => out.dist = 0

AtHorizon(q) == Dot(q, q) = BLACKHOLE_RADIUS * BLACKHOLE_RADIUS

\* the field out.n / out.d points from q towards the origin
TowardsOrigin(q) ==
    /\ \A i, j \in 1..3 : out.n[i] * q[j] = out.n[j] * q[i]
    /\ Dot(out.n, q) < 0
    /\ out.d > 0

\* C19 (as claimed): at |p| = BLACKHOLE_RADIUS the field points towards the
\* origin and its magnitude is 6 / BLACKHOLE_RADIUS^2 (= 600 / 36 with the
\* radius in tenths, 16.67).
C19_MagnitudeSixOverRadiusSquared ==
    (fn = "gravitational_field" /\ AtHorizon(arg.p)) =>
        /\ TowardsOrigin(arg.p)
        /\ Dot(out.n, out.n) * 36 * 36 = 600 * 600 * out.d * out.d

\* C19 (amended): at |p| = BLACKHOLE_RADIUS the field points towards the
\* origin and its magnitude is 6 (the value of 6 / |r|^4 at |r| = 1).
C19_MagnitudeSix ==
    (fn = "gravitational_field" /\ AtHorizon(arg.p)) =>
        /\ TowardsOrigin(arg.p)
        /\ Dot(out.n, out.n) = 6 * 6 * out.d * out.d

\* C19 witness: the field evaluated at a point of the horizon that lies on
\* no axis.
C19_Witness ==
    /\ fn = "gravitational_field"
    /\ AtHorizon(arg.p)
    /\ \A i \in 1..3 : arg.p[i] # 0

\* C16: a call of bogacki_shampine returns the delta computed with the step
\* size h0 it was handed, and leaves 0.9 * clamp(h0 * sqrt(1e-5 / (2 * error)),
\* 1e-8, 1e-1) as the next step size, which lies in [0.9e-8, 0.9e-1]; so does
\* the step size after any number of adaptive steps.
C16_StepSizeControl ==
    fn = "bogacki_shampine" =>
        /\ out.delta = BsStep(BsStages(arg.s, arg.h), arg.h)
        /\ out.h = F32Mul(Lit(9, 10),
                          F32Clamp(F32Mul(arg.h,
                                          F32Sqrt(F32Div(F32Mul(ERR_TOLERANCE, Lit(1, 2)),
                                                         out.err))),
                                   H_MIN, H_MAX))
        /\ out.h.k = "fin"
        /\ ~F32Less(out.h, F32Mul(Lit(9, 10), H_MIN))
        /\ ~F32Less(F32Mul(Lit(9, 10), H_MAX), out.h)

\* C16 witness: a third adaptive step in a row whose step size differs from
\* the one it was handed and from both ends of the range.
C16_Witness ==
    /\ fn = "bogacki_shampine"
    /\ arg.n = 2
    /\ out.h # arg.h
    /\ F32Less(F32Mul(Lit(9, 10), H_MIN), out.h)
    /\ F32Less(out.h, F32Mul(Lit(9, 10), H_MAX))

ZeroField == \A a \in out.acc : IsZero(a)

\* a is within n units in the last place of b
WithinUlps(a, b, n) ==
    /\ a.k = "fin" /\ b.k = "fin"
    /\ IF IsZero(b) THEN IsZero(a)
       ELSE /\ a.s = b.s
            /\ CASE a.e = b.e -> Abs(a.m - b.m) <= n
                  [] a.e = b.e + 1 -> Abs(2 * a.m - b.m) <= n
                  [] a.e = b.e - 1 -> Abs(a.m - 2 * b.m) <= 2 * n
                  [] OTHER -> FALSE

\* C18 (as claimed): when the acceleration is zero at every stage, each
\* integrator returns a delta whose velocity part is exactly 0 and whose
\* position part is exactly h * v.
C18_ZeroFieldExact ==
    (fn \in {"euler", "rk4", "bogacki_shampine"} /\ ZeroField) =>
        /\ IsZero(out.delta.y)
        /\ out.delta.x = F32Mul(arg.h, arg.s.y)

\* C18 (amended): when the acceleration is zero at every stage, each
\* integrator returns a delta (not the new state) whose velocity part is
\* exactly 0; the position part is exactly h * v for euler, and h * v up to
\* rounding for rk4 and bogacki_shampine: within 4 units in the last place,
\* a relative error of at most 2^-21.
C18_ZeroFieldRounded ==
    (fn \in {"euler", "rk4", "bogacki_shampine"} /\ ZeroField) =>
        /\ IsZero(out.delta.y)
        /\ fn = "euler" => out.delta.x = F32Mul(arg.h, arg.s.y)
        /\ WithinUlps(out.delta.x, F32Mul(arg.h, arg.s.y), 4)

\* C18 witness: rk4 on a zero field with h = DELTA, where the position part
\* is more than one unit in the last place off h * v.
C18_Witness ==
    /\ fn = "rk4"
    /\ ZeroField
    /\ arg.h = DELTA
    /\ ~WithinUlps(out.delta.x, F32Mul(arg.h, arg.s.y), 1)

(***************************************************************************)
(* FrameBuffer::for_each and FrameBuffer::par_for_each (wcpu/src/lib.rs).  *)
(* enumerate_pixels_mut yields every pixel once, row by row, as            *)
(* (x, y, &mut pixel); par_bridge lets the rayon workers take the items    *)
(* one at a time, and each worker runs the closure on the item it took:    *)
(* read the pixel, call f, write the pixel.                                *)
(***************************************************************************)
\* the model's buffer and thread pool
ParWidth == 2
ParHeight == 2
NumWorkers == 2

ParPixels == (0..(ParWidth - 1)) \X (0..(ParHeight - 1))

\* an item whose reference is to the first pixel, whatever its coordinates
Item_SharedRef(i) ==
    [id |-> <<(i - 1) % ParWidth, (i - 1) \div ParWidth>>, ref |-> <<0, 0>>]

\* the i-th item of enumerate_pixels_mut: coordinates and the reference
Item(i) ==
    [id |-> <<(i - 1) % ParWidth, (i - 1) \div ParWidth>>,
     ref |-> <<(i - 1) % ParWidth, (i - 1) \div ParWidth>>]

EnumeratePixels == [i \in 1..(ParWidth * ParHeight) |-> Item(i)]

\* closures that depend on their arguments only
Funcs == {"inc", "coord", "mix"}

Apply(f, id, color) ==
    CASE f = "inc" -> color + 1
      [] f = "coord" -> id[1] + 2 * id[2]
      [] f = "mix" -> 2 * color + id[1] + 1

\* lines 37-43: the sequential loop
RECURSIVE ForEach(_, _, _)
ForEach(items, img, f) ==
    IF items = <<>> THEN img
    ELSE LET it == Head(items)
         IN ForEach(Tail(items),
                    [img EXCEPT ![it.ref] = Apply(f, it.id, img[it.ref])], f)

IdleWorker == [st |-> "idle", id |-> <<0, 0>>, ref |-> <<0, 0>>, color |-> 0]

\* buffer contents on entry: all zero (a new FrameBuffer), and one with a
\* different value in every pixel
ParImages ==
    {[px \in ParPixels |-> 0], [px \in ParPixels |-> 1 + px[1] + ParWidth * px[2]]}

ParInit ==
    /\ image \in ParImages
    /\ before = image
    /\ func \in Funcs
    /\ pending = EnumeratePixels
    /\ workers = [w \in 1..NumWorkers |-> IdleWorker]
    /\ called = [px \in ParPixels |-> 0]
    /\ overlapped = FALSE

\* par_bridge: an idle worker takes the next item of the iterator
Take(w) ==
    /\ workers[w].st = "idle"
    /\ pending # <<>>
    /\ workers' = [workers EXCEPT ![w] = [st |-> "taken", id |-> Head(pending).id,
                                          ref |-> Head(pending).ref, color |-> 0]]
    /\ pending' = Tail(pending)
    /\ overlapped' = (overlapped \/ \E o \in 1..NumWorkers : workers[o].st # "idle")
    /\ UNCHANGED <<image, before, func, called>>
    /\ UNCHANGED <<renderVars, computeVars, marcherVars, callVars, simVars, guiVars, camVars, mouseVars, buildVars, dialogVars>>

\* line 55: let color = f(UVec2::new(x, y), Vec4::from_array(p.0))
CallF(w) ==
    /\ workers[w].st = "taken"
    /\ workers' = [workers EXCEPT
                     ![w].st = "computed",
                     ![w].color = Apply(func, workers[w].id, image[workers[w].ref])]
    /\ called' = [called EXCEPT ![workers[w].id] = @ + 1]
    /\ UNCHANGED <<image, before, func, pending, overlapped>>
    /\ UNCHANGED <<renderVars, computeVars, marcherVars, callVars, simVars, guiVars, camVars, mouseVars, buildVars, dialogVars>>

\* line 57: *p = image::Rgba(color.to_array())
Store(w) ==
    /\ workers[w].st = "computed"
    /\ image' = [image EXCEPT ![workers[w].ref] = workers[w].color]
    /\ workers' = [workers EXCEPT ![w] = IdleWorker]
    /\ UNCHANGED <<before, func, pending, called, overlapped>>
    /\ UNCHANGED <<renderVars, computeVars, marcherVars, callVars, simVars, guiVars, camVars, mouseVars, buildVars, dialogVars>>

NextPar == \E w \in 1..NumWorkers : Take(w) \/ CallF(w) \/ Store(w)

InitPar == RenderIdle /\ ComputeInit /\ MarcherInit /\ CallsIdle /\ ParInit /\ SimIdle /\ GuiIdle /\ CamIdle /\ MouseIdle /\ BuildIdle /\ DialogIdle

SpecPar == InitPar /\ [][NextPar]_vars

\* par_for_each has returned: no item left and every worker idle
ParDone == pending = <<>> /\ \A w \in 1..NumWorkers : workers[w].st = "idle"

\* the pixel's task has stored its result
Stored(px) ==
    /\ called[px] > 0
    /\ \A w \in 1..NumWorkers : workers[w].st = "idle" \/ workers[w].id # px

\* C17: par_for_each calls f once per pixel, with that pixel's own previous
\* value, and stores the result into that pixel only; whatever the
\* interleaving of the workers, the buffer it leaves is the one the
\* sequential for_each leaves.
C17_ParForEach ==
    /\ \A px \in ParPixels :
          /\ called[px] <= 1
          /\ image[px] = IF Stored(px) THEN Apply(func, px, before[px]) ELSE before[px]
    /\ \A w \in 1..NumWorkers :
          workers[w].st = "computed" =>
              workers[w].color = Apply(func, workers[w].id, before[workers[w].id])
    /\ ParDone => /\ \A px \in ParPixels : called[px] = 1
                  /\ image = ForEach(EnumeratePixels, before, func)

\* C17 witness: par_for_each has returned after a run in which tasks
\* overlapped, with a closure that uses both the coordinates and the value.
C17_Witness ==
    /\ ParDone
    /\ overlapped
    /\ func = "mix"
    /\ image # before

(***************************************************************************)
(* Gui (crates/gui/src/lib.rs) driven by the event loop of crates/event    *)
(* with the handler of kerrbhy/src/sim.rs: one action per event the        *)
(* closure handles; a handled RedrawRequested is the handler's update      *)
(* followed by its draw.                                                   *)
(***************************************************************************)
\* run, lines 152-153 and 159-164, 206: a window event other than a close
\* or a redraw request; Gui::handle_event hands it to egui
GuiWindowEvent ==
    /\ guiPc = "wait"
    /\ rawInput < MaxInput
    /\ rawInput' = rawInput + 1
    /\ UNCHANGED <<partial, running, guiPc, redraws, frame, consumed>>
    /\ UNCHANGED <<renderVars, computeVars, marcherVars, callVars, parVars, simVars, camVars, mouseVars, buildVars, dialogVars>>

\* run, lines 165-168: target.exit() lets the events still queued through
GuiCloseRequested ==
    /\ guiPc = "wait"
    /\ running
    /\ running' = FALSE
    /\ UNCHANGED <<partial, rawInput, guiPc, redraws, frame, consumed>>
    /\ UNCHANGED <<renderVars, computeVars, marcherVars, callVars, parVars, simVars, camVars, mouseVars, buildVars, dialogVars>>

\* run, lines 169-184: no surface texture (a timeout, out of memory, or
\* lost again after the reconfigure): neither update nor draw is called
GuiRedrawNoFrame ==
    /\ guiPc = "wait"
    /\ \E outcome \in {"timeout", "out_of_memory", "lost"} :
          /\ frame # outcome
          /\ frame' = outcome
    /\ UNCHANGED <<partial, rawInput, running, guiPc, redraws, consumed>>
    /\ UNCHANGED <<renderVars, computeVars, marcherVars, callVars, parVars, simVars, camVars, mouseVars, buildVars, dialogVars>>

\* an update that does not call Gui::end
GuiUpdate_NoEnd ==
    /\ guiPc = "wait"
    /\ redraws < MaxRedraws
    /\ frame' \in {"ok", "reconfigured"}
    /\ redraws' = redraws + 1
    /\ rawInput' = 0
    /\ guiPc' = "updated"
    /\ UNCHANGED <<partial, running, consumed>>
    /\ UNCHANGED <<renderVars, computeVars, marcherVars, callVars, parVars, simVars, camVars, mouseVars, buildVars, dialogVars>>

\* run, lines 169-193, with a surface texture (at once or after the
\* reconfigure): State::update (sim.rs:61-74) calls Gui::begin, which takes
\* the input egui holds, the ui, and Gui::end, which stores the output
GuiUpdate ==
    /\ guiPc = "wait"
    /\ redraws < MaxRedraws
    /\ frame' \in {"ok", "reconfigured"}
    /\ redraws' = redraws + 1
    /\ rawInput' = 0
    /\ partial' = redraws + 1
    /\ guiPc' = "updated"
    /\ UNCHANGED <<running, consumed>>
    /\ UNCHANGED <<renderVars, computeVars, marcherVars, callVars, parVars, simVars, camVars, mouseVars, buildVars, dialogVars>>

\* run, lines 195-203: State::draw (sim.rs:76-89) calls Gui::draw, whose
\* self.partial.take().expect(..) panics on None
GuiDraw ==
    /\ guiPc = "updated"
    /\ IF partial = 0
       THEN /\ guiPc' = "panicked"
            /\ UNCHANGED <<partial, consumed>>
       ELSE /\ consumed' = [consumed EXCEPT ![partial] = @ + 1]
            /\ partial' = 0
            /\ guiPc' = "wait"
    /\ UNCHANGED <<rawInput, running, redraws, frame>>
    /\ UNCHANGED <<renderVars, computeVars, marcherVars, callVars, parVars, simVars, camVars, mouseVars, buildVars, dialogVars>>

NextGui ==
    \/ GuiWindowEvent
    \/ GuiCloseRequested
    \/ GuiRedrawNoFrame
    \/ GuiUpdate
    \/ GuiDraw

InitGui == RenderIdle /\ ComputeInit /\ MarcherInit /\ CallsIdle /\ ParIdle /\ SimIdle /\ GuiIdle /\ CamIdle /\ MouseIdle /\ BuildIdle /\ DialogIdle

SpecGui == InitGui /\ [][NextGui]_vars

\* C24: under the event loop Gui::draw never finds `partial` empty.  Between
\* events nothing is stored and every output stored so far has been taken
\* by exactly one draw; between the update and the draw of a redraw the
\* stored output is the one of that redraw, not yet taken; and a draw
\* takes the output its own redraw stored.
C24_DrawAfterUpdate ==
    /\ [](guiPc # "panicked")
    /\ [](guiPc = "wait" =>
            /\ partial = 0
            /\ \A k \in 1..MaxRedraws :
                  consumed[k] = IF k <= redraws THEN 1 ELSE 0)
    /\ [](guiPc = "updated" =>
            /\ redraws > 0
            /\ partial = redraws
            /\ consumed[redraws] = 0)
    /\ [][consumed' # consumed =>
             /\ guiPc = "updated"
             /\ partial = redraws
             /\ consumed' = [consumed EXCEPT ![redraws] = 1]]_vars

\* two redraws drawn, then the window closed and a redraw without a frame
C24_Witness ==
    /\ guiPc = "wait"
    /\ redraws = 2
    /\ consumed[2] = 1
    /\ ~running
    /\ frame = "timeout"

(***************************************************************************)
(* GpuProfiler::send_to_puffin (hardware/profiler/src/lib.rs).  A          *)
(* GpuTimerQueryResult is [label, nested_queries]; a scope id is the name  *)
(* it was registered for and, without the id cache, the position of the    *)
(* registration (register_user_scopes hands out one new id per scope).     *)
(***************************************************************************)
\* the model's bounds on the forest of timings
MaxTimings == 2
MaxNested == 2

Labels == {"a", "b"}

\* sequences over S of length lo..hi
SeqsOf(S, lo, hi) == UNION {[1..n -> S] : n \in lo..hi}

\* results with no, one and two levels of nested queries
Results0 == [label : Labels, nested_queries : {<<>>}]
Results1 == [label : Labels, nested_queries : SeqsOf(Results0, 0, MaxNested)]
Results2 == [label : Labels, nested_queries : SeqsOf(Results1, 1, 1)]

Timings == SeqsOf(Results1 \cup Results2, 0, MaxTimings)

ProfilerArgs ==
    [f : {"send_to_puffin"}, scopes_on : {TRUE}, frame : {"finished"},
     timings : Timings, id_cache : BOOLEAN]
      \cup [f : {"send_to_puffin"}, scopes_on : BOOLEAN, frame : {"none"},
            timings : {<<>>}, id_cache : {FALSE}]

\* lines 188-198
RECURSIVE add_scope_names(_, _)
RECURSIVE AddNestedNames(_, _, _)
add_scope_names(scopes, result) ==
    AddNestedNames(Append(scopes, result.label), result.nested_queries, 1)

\* lines 195-197: for child in &result.nested_queries
AddNestedNames(scopes, children, i) ==
    IF i > Len(children) THEN scopes
    ELSE AddNestedNames(add_scope_names(scopes, children[i]), children, i + 1)

\* lines 93-95: for res in &timings
RECURSIVE ScopeNames(_, _, _)
ScopeNames(scopes, timings, i) ==
    IF i > Len(timings) THEN scopes
    ELSE ScopeNames(add_scope_names(scopes, timings[i]), timings, i + 1)

\* lines 97-130: one id per name, from the cache or newly registered
ScopeIds(scope_names, id_cache) ==
    [i \in 1..Len(scope_names) |->
        [name |-> scope_names[i], n |-> IF id_cache THEN 0 ELSE i]]

\* lines 168-186; w is [stream, index, panic]: the scopes begun so far, each
\* the label of its result and the id it was given, *index, and whether
\* ids[*index] has been out of bounds
RECURSIVE write_timings(_, _, _)
RECURSIVE WriteNested(_, _, _, _)
write_timings(w, result, ids) ==
    IF w.panic \/ w.index + 1 > Len(ids)
    THEN [w EXCEPT !.panic = TRUE]
    ELSE WriteNested([w EXCEPT !.stream =
                                  Append(@, <<result.label, ids[w.index + 1]>>)],
                     result.nested_queries, 1, ids)

\* lines 180-183: *index += 1 before each child
WriteNested(w, children, i, ids) ==
    IF i > Len(children) THEN w
    ELSE WriteNested(write_timings([w EXCEPT !.index = @ + 1], children[i], ids),
                     children, i + 1, ids)

\* lines 138-141: let mut index = 0; for res in &timings
RECURSIVE WriteAll(_, _, _, _)
WriteAll(w, timings, i, ids) ==
    IF i > Len(timings) THEN w
    ELSE WriteAll(write_timings(w, timings[i], ids), timings, i + 1, ids)

\* lines 66-165
send_to_puffin(a) ==
    IF ~a.scopes_on THEN [result |-> "Disabled"]
    ELSE IF a.frame = "none" THEN [result |-> "Failure"]
    ELSE IF a.timings = <<>> THEN [result |-> "Empty"]
    ELSE With(ScopeNames(<<>>, a.timings, 1), LAMBDA scope_names :
         With(ScopeIds(scope_names, a.id_cache), LAMBDA ids :
         With(WriteAll([stream |-> <<>>, index |-> 0, panic |-> FALSE],
                       a.timings, 1, ids), LAMBDA w :
              [result |-> IF w.panic THEN "panic" ELSE "Success",
               scope_names |-> scope_names, ids |-> ids,
               stream |-> w.stream, index |-> w.index])))

ProfilerInit ==
    /\ fn = "none"
    /\ arg \in ProfilerArgs
    /\ out = <<>>

CallSendToPuffin == Call("send_to_puffin", send_to_puffin(arg))

NextProfiler == CallSendToPuffin

InitProfiler == RenderIdle /\ ComputeInit /\ MarcherInit /\ ProfilerInit /\ ParIdle /\ SimIdle /\ GuiIdle /\ CamIdle /\ MouseIdle /\ BuildIdle /\ DialogIdle

SpecProfiler == InitProfiler /\ [][NextProfiler]_vars

\* C25 (as claimed): for every forest of timings, write_timings visits the
\* results in the order in which add_scope_names listed their labels: the
\* k-th scope written is the one of the k-th label, with the id registered
\* for that label, and ids[*index] is never out of bounds.
C25_ScopesMatchNames ==
    (fn = "send_to_puffin" /\ out.result \notin {"Disabled", "Failure", "Empty"}) =>
        /\ out.result = "Success"
        /\ Len(out.stream) = Len(out.scope_names)
        /\ \A k \in 1..Len(out.stream) :
              /\ out.stream[k][1] = out.scope_names[k]
              /\ out.stream[k][2].name = out.stream[k][1]

(***************************************************************************)
(* common::OrbitCamera: the orbit bounds, zoom and orbit.                  *)
(***************************************************************************)
\* calls of orbit and zoom followed on one camera
MaxCameraCalls == 5

PI == Fl(1, 13176795, -22)
FRAC_PI_2 == Fl(1, 13176795, -23)

\* next_up: the next f32 above x, on the bit pattern
next_up(x) ==
    IF x.k = "nan" \/ (x.k = "inf" /\ x.s = 1) THEN x
    ELSE IF x.k = "inf" THEN Fl(-1, Pow2(24) - 1, 104)
    ELSE IF IsZero(x) THEN Fl(1, 1, -149)
    ELSE IF x.s = 1
         THEN IF x.m + 1 = Pow2(24) THEN Fl(1, Pow2(23), x.e + 1)
              ELSE Fl(1, x.m + 1, x.e)
         ELSE IF x.m = Pow2(23) THEN Fl(-1, Pow2(24) - 1, x.e - 1)
              ELSE Fl(-1, x.m - 1, x.e)

\* a range handed to OrbitCamera::new: each end Included, Excluded or
\* Unbounded
Bound(kind, value) == [kind |-> kind, value |-> value]

range_from_range_bounds(range, lo, hi) ==
    [start |-> CASE range.start.kind = "Included" -> range.start.value
                 [] range.start.kind = "Excluded" -> next_up(range.start.value)
                 [] OTHER -> lo,
     end |-> CASE range.end.kind = "Included" -> next_up(range.end.value)
               [] range.end.kind = "Excluded" -> range.end.value
               [] OTHER -> hi]

\* Range<f32>::contains: start <= x < end
Contains(range, value) == ~F32Less(value, range.start) /\ F32Less(value, range.end)
                      /\ value.k # "nan" /\ range.start.k # "nan"

\* OrbitCamera::new
OrbitCameraNew(fovy, radius, bounds, target) ==
    [fov |-> fovy, radius |-> radius,
     bounds |-> range_from_range_bounds(bounds, F32Zero, FromInt(1000)),
     target |-> target, phi |-> FRAC_PI_2, theta |-> F32Zero]

\* the camera of Config::default, and one with an exclusive upper bound
CameraArgs ==
    { [fov |-> FRAC_PI_2, radius |-> Lit(33, 10), target |-> "ZERO",
       bounds |-> [start |-> Bound("Included", Lit(1, 2)),
                   end |-> Bound("Included", Lit(7, 2))]],
      [fov |-> FRAC_PI_2, radius |-> Lit(33, 10), target |-> "ZERO",
       bounds |-> [start |-> Bound("Included", Lit(1, 2)),
                   end |-> Bound("Excluded", Lit(7, 2))]] }

\* the zoom steps: scroll * dt
ZoomDeltas == {Lit(1, 5), Lit(1, 2), FromInt(-1), FromInt(-3), F32NaN}

\* the orbit steps: the key direction * dt, a short and a long frame
OrbitDeltas ==
    { <<F32Zero, FromInt(2)>>, <<F32Zero, FromInt(-2)>>,
      <<Lit(1, 2), Lit(1, 2)>>, <<Lit(-1, 2), Lit(-1, 2)>> }

zoom_Clamped(cam, delta) ==
    [cam EXCEPT !.radius = F32Clamp(F32Add(cam.radius, delta),
                                    cam.bounds.start, cam.bounds.end)]

zoom(cam, delta) ==
    With(F32Add(cam.radius, delta), LAMBDA zoomed :
        IF Contains(cam.bounds, zoomed)
        THEN [cam EXCEPT !.radius = zoomed]
        ELSE cam)

orbit(cam, delta) ==
    [cam EXCEPT !.theta = F32Add(cam.theta, delta[1]),
                !.phi = F32Clamp(F32Add(cam.phi, delta[2]),
                                 Lit(1, 10), F32Sub(PI, Lit(1, 10)))]

CameraInit ==
    \E a \in CameraArgs :
        /\ camera = OrbitCameraNew(a.fov, a.radius, a.bounds, a.target)
        /\ given = a.bounds
        /\ camLast = "new"
        /\ camCalls = 0

CameraZoom ==
    /\ camCalls < MaxCameraCalls
    /\ \E delta \in ZoomDeltas : camera' = zoom(camera, delta)
    /\ camLast' = "zoom"
    /\ camCalls' = camCalls + 1
    /\ UNCHANGED given
    /\ UNCHANGED <<renderVars, computeVars, marcherVars, callVars, parVars, simVars, guiVars, mouseVars, buildVars, dialogVars>>

CameraOrbit ==
    /\ camCalls < MaxCameraCalls
    /\ \E delta \in OrbitDeltas : camera' = orbit(camera, delta)
    /\ camLast' = "orbit"
    /\ camCalls' = camCalls + 1
    /\ UNCHANGED given
    /\ UNCHANGED <<renderVars, computeVars, marcherVars, callVars, parVars, simVars, guiVars, mouseVars, buildVars, dialogVars>>

NextCamera == CameraZoom \/ CameraOrbit

InitCamera == RenderIdle /\ ComputeInit /\ MarcherInit /\ CallsIdle /\ ParIdle /\ SimIdle /\ GuiIdle /\ CameraInit /\ MouseIdle /\ BuildIdle /\ DialogIdle

SpecCamera == InitCamera /\ [][NextCamera]_vars

\* a <= b on f32
F32Le(a, b) == a = b \/ F32Less(a, b)

\* r lies in the range as it was written: an Included end admits the end
InGiven(value) ==
    /\ F32Le(given.start.value, value)
    /\ IF given.end.kind = "Included" THEN F32Le(value, given.end.value)
       ELSE F32Less(value, given.end.value)

\* C26: for a camera created with a radius inside its bounds, the radius
\* stays inside the bounds as written (an inclusive upper bound admits the
\* bound itself), phi lies in [0.1, pi - 0.1] after every orbit, a zoom
\* whose result falls outside the bounds leaves the radius unchanged and
\* otherwise stores the result, and zoom changes no other field.
C26_RadiusInBounds ==
    /\ [](camLast # "none" => InGiven(camera.radius))
    /\ [](camLast = "orbit" =>
            /\ F32Le(Lit(1, 10), camera.phi)
            /\ F32Le(camera.phi, F32Sub(PI, Lit(1, 10))))
    /\ [][camLast' = "zoom" =>
            /\ \E delta \in ZoomDeltas :
                  camera'.radius =
                      IF InGiven(F32Add(camera.radius, delta))
                      THEN F32Add(camera.radius, delta)
                      ELSE camera.radius
            /\ camera'.phi = camera.phi /\ camera'.theta = camera.theta
            /\ camera'.target = camera.target /\ camera'.fov = camera.fov
            /\ camera'.bounds = camera.bounds]_vars

\* the radius zoomed onto the inclusive upper bound 3.5, after an orbit
\* that ran into the upper clamp of phi
C26_Witness ==
    /\ camLast = "zoom"
    /\ given.end.kind = "Included"
    /\ camera.radius = Lit(7, 2)
    /\ camera.phi = F32Sub(PI, Lit(1, 10))
    /\ camCalls = 3

(***************************************************************************)
(* sim::input::Mouse: the button states.                                   *)
(***************************************************************************)
\* events passed to one Mouse
MaxMouseEvents == 4

MouseButtons == {"Left", "Right", "Middle"}

\* the window events update_state tells apart
MouseWindowEvents ==
    [type : {"CursorMoved"}, position : {<<0, 0>>, <<3, 4>>}]
    \cup [type : {"MouseInput"}, state : {"Pressed", "Released"},
          button : MouseButtons]
    \cup [type : {"MouseWheel"}, delta : {<<0, 1>>, <<0, -1>>}]
    \cup [type : {"Focused"}]

\* Mouse::default
MouseDefault ==
    [pos |-> <<0, 0>>, scroll_delta |-> <<0, 0>>, button_states |-> <<>>]

\* HashMap entry(key).and_modify(|e| *e = down).or_insert(down)
Insert(map, key, down) ==
    [b \in DOMAIN map \cup {key} |-> IF b = key THEN down ELSE map[b]]

update_state(self, e) ==
    CASE e.type = "CursorMoved" -> [self EXCEPT !.pos = e.position]
      [] e.type = "MouseInput" ->
            [self EXCEPT !.button_states =
                Insert(self.button_states, e.button, e.state = "Pressed")]
      [] e.type = "MouseWheel" -> [self EXCEPT !.scroll_delta = e.delta]
      [] OTHER -> self

\* Mouse::clicked: the entry looked up is MouseButton::Left
clicked(self, button) ==
    "Left" \in DOMAIN self.button_states /\ self.button_states["Left"]

left_clicked(self) == clicked(self, "Left")

right_clicked(self) == clicked(self, "Right")

MouseInit ==
    /\ mouse = MouseDefault
    /\ lastInput = [b \in MouseButtons |-> "none"]
    /\ mouseEvents = 0

MouseUpdateState ==
    /\ mouseEvents < MaxMouseEvents
    /\ \E e \in MouseWindowEvents :
          /\ mouse' = update_state(mouse, e)
          /\ lastInput' = IF e.type = "MouseInput"
                          THEN [lastInput EXCEPT ![e.button] =
                                   IF e.state = "Pressed" THEN "pressed"
                                   ELSE "released"]
                          ELSE lastInput
    /\ mouseEvents' = mouseEvents + 1
    /\ UNCHANGED <<renderVars, computeVars, marcherVars, callVars, parVars, simVars, guiVars, camVars, buildVars, dialogVars>>

NextMouse == MouseUpdateState

InitMouse == RenderIdle /\ ComputeInit /\ MarcherInit /\ CallsIdle /\ ParIdle /\ SimIdle /\ GuiIdle /\ CamIdle /\ MouseInit /\ BuildIdle /\ DialogIdle

SpecMouse == InitMouse /\ [][NextMouse]_vars

\* C27: right_clicked() holds exactly if the latest MouseInput event for
\* the right button was a press, left_clicked() exactly if the latest one
\* for the left button was, and clicked(b) reports the state of button b.
C27_ClickedReportsButton ==
    mouseEvents > 0 =>
        /\ right_clicked(mouse) <=> lastInput["Right"] = "pressed"
        /\ left_clicked(mouse) <=> lastInput["Left"] = "pressed"
        /\ \A b \in MouseButtons :
              clicked(mouse, b) <=> lastInput[b] = "pressed"

(***************************************************************************)
(* wcpu::texture: Sampler::sample on a 2D texture, one channel of the      *)
(* texel (the four channels go through the same arithmetic).               *)
(***************************************************************************)
\* the largest texture side
MaxSide == 2

\* the integer part of |a| and whether a fraction is left, and whether
\* that fraction is at least a half; for finite |a| < 2^31
IntPart(a) ==
    IF a.e >= 0 THEN a.m * Pow2(a.e)
    ELSE IF -a.e > 30 THEN 0
    ELSE a.m \div Pow2(-a.e)

HasFrac(a) ==
    IF a.e >= 0 THEN FALSE
    ELSE IF -a.e > 30 THEN a.m # 0
    ELSE a.m % Pow2(-a.e) # 0

HalfOrMore(a) ==
    IF a.e >= 0 \/ -a.e > 30 THEN FALSE
    ELSE 2 * (a.m % Pow2(-a.e)) >= Pow2(-a.e)

\* f32::floor, f32::ceil, f32::round (halves away from zero)
F32Floor(a) ==
    IF a.k # "fin" \/ ~HasFrac(a) THEN a
    ELSE IF a.s = 1 THEN FromInt(IntPart(a))
    ELSE FromInt(-(IntPart(a) + 1))

F32Ceil(a) ==
    IF a.k # "fin" \/ ~HasFrac(a) THEN a
    ELSE IF a.s = 1 THEN FromInt(IntPart(a) + 1)
    ELSE FromInt(-IntPart(a))

F32RoundHalfAway(a) ==
    IF a.k # "fin" \/ ~HasFrac(a) THEN a
    ELSE FromInt(a.s * (IntPart(a) + IF HalfOrMore(a) THEN 1 ELSE 0))

\* `as u32`: NaN and negative values give 0
AsU32(a) ==
    IF a.k = "nan" \/ (a.k = "fin" /\ a.s = -1) THEN 0
    ELSE IF a.k = "inf" THEN IF a.s = 1 THEN Pow2(30) ELSE 0
    ELSE IntPart(a)

\* a texture: its size and its texels
Texture2D(wid, hgt, texel(_, _)) ==
    [size |-> <<wid, hgt>>,
     img |-> [pt \in (0..(wid - 1)) \X (0..(hgt - 1)) |-> texel(pt[1], pt[2])]]

\* the texel every texture of ConstantTextures holds
TexelC == Lit(3, 4)

ConstantTextures ==
    {Texture2D(wid, hgt, LAMBDA x, y : TexelC) : wid \in 1..MaxSide, hgt \in 1..MaxSide}

GradientTextures ==
    {Texture2D(MaxSide, MaxSide, LAMBDA x, y : FromInt(1 + x + 2 * y))}

\* uv * size is an integer for some of these and not for others
UvCoords == {F32Zero, Lit(1, 4), Lit(1, 2), Lit(3, 4), FromInt(1), Lit(5, 4)}

SampleArgs ==
    [f : {"sample"}, filter_mode : {"Nearest", "Linear"},
     tex : ConstantTextures \cup GradientTextures,
     uv : UvCoords \X UvCoords]

\* EdgeMode::Wrap
apply2d(tex, x, y) == <<x % tex.size[1], y % tex.size[2]>>

\* the outcome of a sample that panicked
Panicked == [k |-> "panic", s |-> 1, m |-> 0, e |-> 0]

\* Texture::get: a read outside the image panics
TexGet(tex, pt) == IF pt \in DOMAIN tex.img THEN tex.img[pt] ELSE Panicked

\* the blend of Filter::Linear, in the order the expression is evaluated
Blend(q11, q12, q21, q22, x, y, x1, y1, x2, y2) ==
    F32Mul(
        F32Div(
            F32Add(F32Add(F32Add(
                F32Mul(F32Mul(q11, F32Sub(x2, x)), F32Sub(y2, y)),
                F32Mul(F32Mul(q21, F32Sub(x, x1)), F32Sub(y2, y))),
                F32Mul(F32Mul(q12, F32Sub(x2, x)), F32Sub(y, y1))),
                F32Mul(F32Mul(q22, F32Sub(x, x1)), F32Sub(y, y1))),
            F32Sub(x2, x1)),
        F32Sub(y2, y1))

SampleLinear(tex, x, y, x1, y1, x2, y2, p1, p2) ==
    With(<<p1, <<p1[1], p2[2]>>, <<p2[1], p1[2]>>, p2>>, LAMBDA ps :
        [reads |-> {ps[i] : i \in 1..4},
         value |-> IF \E i \in 1..4 : ps[i] \notin DOMAIN tex.img THEN Panicked
                   ELSE Blend(TexGet(tex, ps[1]), TexGet(tex, ps[2]),
                              TexGet(tex, ps[3]), TexGet(tex, ps[4]),
                              x, y, x1, y1, x2, y2)])

\* <Sampler as Sample<2>>::sample
sample2d(a) ==
    With(<<F32Mul(a.uv[1], FromInt(a.tex.size[1])),
           F32Mul(a.uv[2], FromInt(a.tex.size[2]))>>, LAMBDA pos :
        IF a.filter_mode = "Nearest"
        THEN With(apply2d(a.tex, AsU32(F32RoundHalfAway(pos[1])),
                                 AsU32(F32RoundHalfAway(pos[2]))), LAMBDA pt :
                 [reads |-> {pt}, value |-> TexGet(a.tex, pt)])
        ELSE SampleLinear(a.tex, pos[1], pos[2],
                 F32Floor(pos[1]), F32Floor(pos[2]),
                 F32Ceil(pos[1]), F32Ceil(pos[2]),
                 apply2d(a.tex, AsU32(F32Floor(pos[1])), AsU32(F32Floor(pos[2]))),
                 apply2d(a.tex, AsU32(F32Ceil(pos[1])), AsU32(F32Ceil(pos[2])))))

SamplerInit ==
    /\ fn = "none"
    /\ arg \in SampleArgs
    /\ out = <<>>

CallSample == Call("sample", sample2d(arg))

NextSampler == CallSample

InitSampler == RenderIdle /\ ComputeInit /\ MarcherInit /\ SamplerInit /\ ParIdle /\ SimIdle /\ GuiIdle /\ CamIdle /\ MouseIdle /\ BuildIdle /\ DialogIdle

SpecSampler == InitSampler /\ [][NextSampler]_vars

\* C28 (as claimed): with edge mode Wrap every texel read lies inside the
\* texture, and with the Linear filter a texture whose texels all equal c
\* yields c for every uv, also where uv * size is an integer.
C28_LinearBlend ==
    fn = "sample" =>
        /\ out.reads \subseteq DOMAIN arg.tex.img
        /\ out.value # Panicked
        /\ (arg.filter_mode = "Linear" /\ arg.tex \in ConstantTextures) =>
               out.value = TexelC

\* the reads of every sample stay inside the texture
SampleReadsInside ==
    fn = "sample" => (out.reads \subseteq DOMAIN arg.tex.img /\ out.value # Panicked)

(***************************************************************************)
(* wgsl_bindgen::preprocess: ShaderBuilder::build and process.  A line is  *)
(* its sequence of words; all files lie in one directory.                  *)
(***************************************************************************)
\* frames of process() the call stack holds before it overflows
MaxStack == 4

Paths == {"a", "b", "c"}

\* the file ShaderBuilder::new was given
Src == "a"

IncludeLine(names) == <<"//!include">> \o names

\* what a file may hold: unreadable, or one of a few texts
Contents ==
    {[ok |-> FALSE, lines |-> <<>>],
     [ok |-> TRUE, lines |-> <<>>],
     [ok |-> TRUE, lines |-> << <<"x">> >>],
     [ok |-> TRUE, lines |-> << <<"//!">>, IncludeLine(<<"b", "c">>), <<"y">> >>]}
    \cup {[ok |-> TRUE, lines |-> << <<"x">>, IncludeLine(<<q>>) >>] : q \in Paths}

\* line.strip_prefix("//!") and rest.starts_with("include")
IsInclude(line) == line[1] = "//!include"

\* rest.split_whitespace().skip(1)
IncludesOf(line) == Tail(line)

\* the frame of a call of inner(src) after read_to_string
Frame(src) ==
    [src |-> src, line |-> 1, tok |-> 1,
     module_string |-> <<>>, includes |-> <<>>]

\* a call of process(path): the read fails and the error goes up through
\* every `?`, or the stack has no room for the frame, or the frame is entered
CallProcess(path) ==
    IF ~files[path].ok
    THEN /\ bpc' = "err"
         /\ built' = [err |-> path]
         /\ stack' = <<>>
    ELSE IF Len(stack) = MaxStack
    THEN /\ bpc' = "overflow"
         /\ UNCHANGED <<stack, built>>
    ELSE /\ bpc' = "run"
         /\ stack' = Append(stack, Frame(path))
         /\ UNCHANGED built

Top == stack[Len(stack)]

TopLines == files[Top.src].lines

BuildInit ==
    /\ files \in [Paths -> Contents]
    /\ stack = <<>>
    /\ bpc = "start"
    /\ built = <<>>

\* ShaderBuilder::build calls process(self.src)
Build ==
    /\ bpc = "start"
    /\ CallProcess(Src)
    /\ UNCHANGED files
    /\ UNCHANGED <<renderVars, computeVars, marcherVars, callVars, parVars, simVars, guiVars, camVars, mouseVars, dialogVars>>

\* a line that is no include instruction is copied with a newline
ProcessLine ==
    /\ bpc = "run"
    /\ Top.line <= Len(TopLines)
    /\ ~IsInclude(TopLines[Top.line])
    /\ stack' = [stack EXCEPT ![Len(stack)] =
                    [@ EXCEPT !.module_string = Append(@, TopLines[Top.line]),
                              !.line = @ + 1]]
    /\ UNCHANGED <<files, bpc, built>>
    /\ UNCHANGED <<renderVars, computeVars, marcherVars, callVars, parVars, simVars, guiVars, camVars, mouseVars, dialogVars>>

\* the next name of an include instruction: process(&include_path)
ProcessInclude ==
    /\ bpc = "run"
    /\ Top.line <= Len(TopLines)
    /\ IsInclude(TopLines[Top.line])
    /\ Top.tok <= Len(IncludesOf(TopLines[Top.line]))
    /\ CallProcess(IncludesOf(TopLines[Top.line])[Top.tok])
    /\ UNCHANGED files
    /\ UNCHANGED <<renderVars, computeVars, marcherVars, callVars, parVars, simVars, guiVars, camVars, mouseVars, dialogVars>>

\* the names of an include instruction are used up: continue 'next_line
ProcessNextLine ==
    /\ bpc = "run"
    /\ Top.line <= Len(TopLines)
    /\ IsInclude(TopLines[Top.line])
    /\ Top.tok > Len(IncludesOf(TopLines[Top.line]))
    /\ stack' = [stack EXCEPT ![Len(stack)] =
                    [@ EXCEPT !.line = @ + 1, !.tok = 1]]
    /\ UNCHANGED <<files, bpc, built>>
    /\ UNCHANGED <<renderVars, computeVars, marcherVars, callVars, parVars, simVars, guiVars, camVars, mouseVars, dialogVars>>

\* Ok((module_string, includes)): to build, or to the including frame
ProcessReturn ==
    /\ bpc = "run"
    /\ Top.line > Len(TopLines)
    /\ IF Len(stack) = 1
       THEN /\ bpc' = "ok"
            /\ built' = [code |-> Top.module_string, includes |-> Top.includes]
            /\ stack' = <<>>
       ELSE /\ stack' = [SubSeq(stack, 1, Len(stack) - 1)
                            EXCEPT ![Len(stack) - 1] =
                    [@ EXCEPT !.includes = (Append(@, Top.src)) \o Top.includes,
                              !.module_string = @ \o Top.module_string,
                              !.tok = @ + 1]]
            /\ UNCHANGED <<bpc, built>>
    /\ UNCHANGED files
    /\ UNCHANGED <<renderVars, computeVars, marcherVars, callVars, parVars, simVars, guiVars, camVars, mouseVars, dialogVars>>

NextBuild ==
    Build \/ ProcessLine \/ ProcessInclude \/ ProcessNextLine \/ ProcessReturn

InitBuild == RenderIdle /\ ComputeInit /\ MarcherInit /\ CallsIdle /\ ParIdle /\ SimIdle /\ GuiIdle /\ CamIdle /\ MouseIdle /\ BuildInit /\ DialogIdle

\* the build is one thread that runs until it returns or aborts
SpecBuild == InitBuild /\ [][NextBuild]_vars /\ WF_vars(NextBuild)

\* the text the include instructions stand for, to a depth of n files
RECURSIVE Expand(_, _)
RECURSIVE ExpandLines(_, _, _)
RECURSIVE ExpandNames(_, _)
Expand(path, n) ==
    IF ~files[path].ok THEN [ok |-> FALSE, code |-> <<>>, err |-> path]
    ELSE IF n = 0 THEN [ok |-> FALSE, code |-> <<>>, err |-> "cycle"]
    ELSE ExpandLines(files[path].lines, 1, n)

ExpandNames(names, n) ==
    IF names = <<>> THEN [ok |-> TRUE, code |-> <<>>, err |-> ""]
    ELSE With(Expand(Head(names), n - 1), LAMBDA first :
            IF ~first.ok THEN first
            ELSE With(ExpandNames(Tail(names), n), LAMBDA rest :
                    IF ~rest.ok THEN rest
                    ELSE [rest EXCEPT !.code = first.code \o @]))

ExpandLines(lines, i, n) ==
    IF i > Len(lines) THEN [ok |-> TRUE, code |-> <<>>, err |-> ""]
    ELSE With(IF IsInclude(lines[i]) THEN ExpandNames(IncludesOf(lines[i]), n)
              ELSE [ok |-> TRUE, code |-> <<lines[i]>>, err |-> ""], LAMBDA first :
            IF ~first.ok THEN first
            ELSE With(ExpandLines(lines, i + 1, n), LAMBDA rest :
                    IF ~rest.ok THEN rest
                    ELSE [rest EXCEPT !.code = first.code \o @]))

\* C29 (as claimed): for every set of files build terminates, with the
\* module text in which each include line is replaced by the processed text
\* of the named files and every other line is copied, or with the error of
\* the first unreadable file; also when files include each other in a cycle.
C29_BuildTerminates ==
    /\ (bpc = "start") ~> (bpc \in {"ok", "err"})
    /\ [](bpc = "ok" => built.code = Expand(Src, MaxStack).code)
    /\ [](bpc = "err" => built.err = Expand(Src, MaxStack).err)

\* what holds of the code: a build that returns, returns the expanded text
\* or the first unreadable file, and the stack overflows only on a cycle
BuildReturnsExpansion ==
    /\ bpc = "ok" => (Expand(Src, MaxStack).ok /\ built.code = Expand(Src, MaxStack).code)
    /\ bpc = "err" => built.err = Expand(Src, MaxStack).err
    /\ bpc = "overflow" => Expand(Src, Cardinality(Paths)).err = "cycle"

(***************************************************************************)
(* sim::ui::file_dialog::show with Config::load and Config::save.          *)
(***************************************************************************)
\* calls of show followed
MaxShows == 3

AppConfigs == {"default", "edited", "other"}

DialogPaths == {"p", "q"}

\* toml::to_string_pretty
ToToml(cfg) == <<"toml", cfg>>

\* texts a file may hold: a configuration, something else, or nothing
Texts == {ToToml(c) : c \in AppConfigs} \cup {<<"garbage", "">>, <<"", "">>}

\* Config::load: toml::from_str
Load(text) ==
    IF text[1] = "toml" THEN [ok |-> TRUE, cfg |-> text[2]]
    ELSE [ok |-> FALSE, cfg |-> "none"]

\* the dialogs show may be handed: none, or one of either type, with a
\* file selected or not
Dialogs ==
    {[some |-> FALSE, type |-> "none", selected |-> FALSE, path |-> "none"]}
    \cup [some : {TRUE}, type : {"OpenFile", "SaveFile"},
          selected : BOOLEAN, path : DialogPaths \cup {"none"}]

Outcome(cfg, dsk, result, log) ==
    [config |-> cfg, disk |-> dsk, result |-> result, log |-> log]

open_file_DefaultOnError(cfg, dsk, path) ==
    IF ~dsk[path].readable
    THEN Outcome(cfg, dsk, "Err: failed to read config file", "none")
    ELSE IF Load(dsk[path].text).ok
    THEN Outcome(Load(dsk[path].text).cfg, dsk, "Ok", "info: loaded new config")
    ELSE Outcome("default", dsk, "Ok", "error: failed to load config")

\* the DialogType::OpenFile arm
open_file(cfg, dsk, path) ==
    IF ~dsk[path].readable
    THEN Outcome(cfg, dsk, "Err: failed to read config file", "none")
    ELSE IF Load(dsk[path].text).ok
    THEN Outcome(Load(dsk[path].text).cfg, dsk, "Ok", "info: loaded new config")
    ELSE Outcome(cfg, dsk, "Ok", "error: failed to load config")

\* the DialogType::SaveFile arm: the file is truncated when it is opened;
\* written tells whether the write went through
save_file(cfg, dsk, path, written) ==
    IF ~dsk[path].writable
    THEN Outcome(cfg, dsk, "Err: failed to open file", "none")
    ELSE IF ~written
    THEN Outcome(cfg, [dsk EXCEPT ![path].text = <<"", "">>],
                 "Err: failed to save config to file", "none")
    ELSE Outcome(cfg, [dsk EXCEPT ![path].text = ToToml(cfg)],
                 "Ok", "info: saved config")

\* file_dialog::show
show(dialog, cfg, dsk, written) ==
    IF ~dialog.some \/ ~dialog.selected \/ dialog.path = "none"
    THEN Outcome(cfg, dsk, "Ok", "none")
    ELSE IF dialog.type = "OpenFile" THEN open_file(cfg, dsk, dialog.path)
    ELSE save_file(cfg, dsk, dialog.path, written)

DialogInit ==
    /\ appConfig = "default"
    /\ disk \in [DialogPaths ->
                    [readable : BOOLEAN, writable : {TRUE},
                     text : {ToToml("edited"), <<"garbage", "">>}]
                    \cup [readable : {TRUE}, writable : {FALSE},
                          text : {ToToml("other")}]]
    /\ shown = <<>>
    /\ showOut = <<>>
    /\ shows = 0

Show ==
    /\ shows < MaxShows
    /\ \E dialog \in Dialogs, written \in BOOLEAN :
          With(show(dialog, appConfig, disk, written), LAMBDA o :
              /\ appConfig' = o.config
              /\ disk' = o.disk
              /\ showOut' = [result |-> o.result, log |-> o.log]
              /\ shown' = dialog)
    /\ shows' = shows + 1
    /\ UNCHANGED <<renderVars, computeVars, marcherVars, callVars, parVars, simVars, guiVars, camVars, mouseVars, buildVars>>

NextDialog == Show

InitDialog == RenderIdle /\ ComputeInit /\ MarcherInit /\ CallsIdle /\ ParIdle /\ SimIdle /\ GuiIdle /\ CamIdle /\ MouseIdle /\ BuildIdle /\ DialogInit

SpecDialog == InitDialog /\ [][NextDialog]_vars

\* C30: a call of show changes the configuration only in the open action
\* and only to the configuration parsed from the whole of the selected,
\* readable file; when the file cannot be read (an error is returned) or
\* fails to parse (an error is logged) the configuration stays as it was;
\* the save action never changes it.
C30_ConfigKeptOnError ==
    /\ [][shows' = shows + 1 =>
            /\ appConfig' # appConfig =>
                  /\ shown'.some /\ shown'.selected
                  /\ shown'.type = "OpenFile"
                  /\ shown'.path \in DialogPaths
                  /\ disk[shown'.path].readable
                  /\ disk[shown'.path].text = ToToml(appConfig')
                  /\ showOut'.result = "Ok"
            /\ showOut'.result # "Ok" => appConfig' = appConfig
            /\ showOut'.log = "error: failed to load config" =>
                  appConfig' = appConfig
            /\ showOut'.log = "info: loaded new config" =>
                  disk[shown'.path].text = ToToml(appConfig')
            /\ shown'.type = "SaveFile" => appConfig' = appConfig]_vars
    /\ [](appConfig \in AppConfigs)

\* an edited configuration was loaded, then a file that does not parse was
\* opened: the error is logged and the edited configuration is still there
C30_Witness ==
    /\ appConfig = "edited"
    /\ shown.some /\ shown.type = "OpenFile"
    /\ showOut = [result |-> "Ok", log |-> "error: failed to load config"]

====
